---- MODULE Spec2Model ----
(***************************************************************************)
(* Verification model of the Safe deployment scripts.                      *)
(*                                                                         *)
(*   SpecRetry : utils/retry.ts    retry()                                 *)
(*   SpecRetryFair : utils/retry.ts   retry() when fn() and wait() answer  *)
(*   SpecGas   : utils/gas.ts      estimateDeploymentGas()                 *)
(*   SpecBatch : deploy-*.ts       main() loop + deployContract()          *)
(*   SpecSink  : deploy-*.ts       saveDeploymentTransaction()             *)
(*   SpecSummary : deploy-*.ts     createGitHubActionsSummary()            *)
(*   SpecFixedDelay : utils/retry.ts   retryWithFixedDelay()               *)
(*   SpecValidation : utils/validation.ts   validateDeployTargets()        *)
(*   SpecConfig : deploy-*.ts      main() before the batch                 *)
(*   SpecCodeHash : deploy-*.ts    the batch over artifacts with codeHash  *)
(*   SpecSerialize : deploy-*.ts   numbers written to the result files     *)
(*   SpecSession : deploy-*.ts     session ids of saveDeploymentTransaction *)
(*   SpecOrder : deploy-*.ts       main(): order of the deployment files   *)
(*   SpecNFT   : deploy-nft.ts     deployNFT()                             *)
(*                                                                         *)
(* Every await of the TypeScript code is a step of the state machine.      *)
(* Strings are kept as strings; a formatted message is the sequence of its *)
(* pieces.  Gas prices are counted in gwei (1 gwei = 10^9 wei) so that     *)
(* gas * gasPrice stays inside TLC's integers.                             *)
(***************************************************************************)
EXTENDS Integers, Sequences, FiniteSets, TLC

VARIABLES
    \* ---- retry() ----
    rOptions,     \* the options argument of the current retry() call
    rPc,          \* "call" | "sleep" | "returned" | "thrown"
    rAttempt,     \* loop variable `attempt`
    rErrors,      \* errors raised by fn(), in invocation order
    rCalls,       \* number of invocations of fn()
    rDelay,       \* clampedDelay computed in the catch block
    rSleeps,      \* delays passed to wait(), in order
    rThrown,      \* value thrown by retry()
    rValue,       \* value returned by retry()
    \* ---- estimateDeploymentGas() ----
    gPc,          \* "estimate" | "price" | "done" | "thrown" | "off"
    gClient,      \* publicClient argument present
    gGas,         \* const gas
    gEstimateCalls, \* invocations of estimateGasFn
    gPriceCalls,  \* invocations of publicClient.getGasPrice
    gResult,      \* the returned GasEstimate
    gThrown,      \* the error thrown by estimateDeploymentGas
    \* ---- batch scripts: main() and deployContract() ----
    bScript,      \* which deployment script runs
    bArtifacts,   \* the deployment data files, in batch order
    bCode,        \* the chain: addresses that hold bytecode
    bChainHash,   \* the chain: code hash of the bytecode deployed there
    bRun,         \* number of the current invocation of the script
    bPc,          \* position of main()/deployContract()
    bIdx,         \* index of the artifact the loop is at
    bResult,      \* `result` of the running deployContract()
    bReceipt,     \* `receipt` of the running deployContract()
    bResults,     \* `results` of main()
    successCount, \* main()'s counter
    failureCount, \* main()'s counter
    bPrecheck,    \* per artifact: what the pre-deployment getBytecode gave
    bAttempted,   \* artifacts whose loop body has been entered
    bSent,        \* per artifact: sendTransaction calls of this invocation
    bTxTotal,     \* sendTransaction calls of all invocations
    bSaved,       \* artifacts handed to saveDeploymentTransaction
    bWaited,      \* artifacts followed by the between-deployments wait
    bSummary,     \* the summary written by createGitHubActionsSummary
    bExit,        \* process exit code
    bFatal,       \* the fatal error that ended main(), or "none"
    bWarned,      \* artifacts whose "Codehash mismatch!" warning was printed
    \* ---- result files: the ./deployments directory ----
    sPc,          \* "start" | "loop" | "exited" | "off"
    sRun,         \* number of the script invocation that is writing
    sNow,         \* what Date.now() returns
    sEnv,         \* process.env.DEPLOYMENT_SESSION_ID
    deploymentSessionId, \* the module-level variable of that name
    sLastSaved,   \* index of the last contract name this invocation saved
    sTxCount,     \* transactions handed to saveDeploymentTransaction so far
    sContractFiles, \* the per-contract files, by name
    sSessionFiles,  \* the session files deployments-<network>-<id>.json, by id
    sSummaryFile, \* the timestamped summary file of the running invocation
    sLatestFile,  \* github-actions-summary-<network>-latest.json
    sWritten,     \* per-contract writes that completed, in call order
    sAppended,    \* per session id: records of the calls that returned normally
    sLastCall,    \* how the latest saveDeploymentTransaction call ended
    sSummaryCall, \* the latest createGitHubActionsSummary call: input and ending
    sSessionsUsed, \* the session ids saveDeploymentTransaction used in this invocation
    \* ---- utils/validation.ts and the configuration main() reads ----
    vPc,          \* "call" | "returned" | "thrown" | "off"
    vArgs,        \* the arguments of the call
    vResult       \* the value returned, or the error thrown

retryVars == <<rOptions, rPc, rAttempt, rErrors, rCalls, rDelay, rSleeps, rThrown, rValue>>
gasVars == <<gPc, gClient, gGas, gEstimateCalls, gPriceCalls, gResult, gThrown>>
batchVars == <<bScript, bArtifacts, bCode, bRun, bPc, bIdx, bResult, bReceipt, bResults,
               successCount, failureCount, bPrecheck, bAttempted, bSent, bTxTotal,
               bSaved, bWaited, bSummary, bExit, bFatal, bChainHash, bWarned>>
sinkVars == <<sPc, sRun, sNow, sEnv, deploymentSessionId, sLastSaved, sTxCount,
              sContractFiles, sSessionFiles, sSummaryFile, sLatestFile,
              sWritten, sAppended, sLastCall, sSummaryCall, sSessionsUsed>>
validationVars == <<vPc, vArgs, vResult>>
vars == <<retryVars, gasVars, batchVars, sinkVars, validationVars>>

Undefined == "undefined"

Min(a, b) == IF a <= b THEN a ELSE b

RECURSIVE Pow(_, _)
Pow(b, e) == IF e <= 0 THEN 1 ELSE b * Pow(b, e - 1)

(***************************************************************************)
(* utils/config.ts                                                         *)
(***************************************************************************)
DEPLOYMENT_CONFIG ==
    [ gas |-> [ defaultLimit |-> 5000000,
                warningThreshold |-> 3000000,
                maxLimit |-> 10000000 ],
      retries |-> [ maxAttempts |-> 3,
                    initialDelayMs |-> 5000,
                    maxDelayMs |-> 30000,
                    backoffMultiplier |-> 2 ],
      delays |-> [ betweenDeployments |-> 1000 ] ]

(***************************************************************************)
(* utils/errors.ts                                                         *)
(***************************************************************************)
\* class -> code passed to the DeploymentError constructor
ErrorCode(cls) ==
    CASE cls = "ConfigurationError" -> "CONFIGURATION_ERROR"
      [] cls = "ValidationError" -> "VALIDATION_ERROR"
      [] cls = "NetworkError" -> "NETWORK_ERROR"
      [] cls = "TransactionError" -> "TRANSACTION_ERROR"
      [] cls = "GasEstimationError" -> "GAS_ESTIMATION_ERROR"
      [] cls = "ContractVerificationError" -> "CONTRACT_VERIFICATION_ERROR"
      [] OTHER -> Undefined

DeploymentErrorClasses ==
    {"DeploymentError", "ConfigurationError", "ValidationError", "NetworkError",
     "TransactionError", "GasEstimationError", "ContractVerificationError"}

\* error instanceof C, following the extends chain
InstanceOf(error, C) ==
    \/ error.cls = C
    \/ C = "DeploymentError" /\ error.cls \in DeploymentErrorClasses
    \/ C = "Error"

isDeploymentError(error) == InstanceOf(error, "DeploymentError")

\* the pieces of the formatted text, in order
formatError(error) ==
    IF isDeploymentError(error)
    THEN <<"[", ErrorCode(error.cls), "] ", error.message>>
         \o (IF error.cause # Undefined THEN <<"\nCaused by: ", error.cause>> ELSE <<>>)
    ELSE <<error.message>>

\* String.prototype.toLowerCase on the strings of the model
toLowerCase(s) ==
    CASE s = "Request Timeout" -> "request timeout"
      [] s = "RPC unreachable" -> "rpc unreachable"
      [] s = "ECONNRESET" -> "econnreset"
      [] s = "NETWORK_ERROR" -> "network_error"
      [] s = "TRANSACTION_ERROR" -> "transaction_error"
      [] s = "VALIDATION_ERROR" -> "validation_error"
      [] s = "GAS_ESTIMATION_ERROR" -> "gas_estimation_error"
      [] s = "CONFIGURATION_ERROR" -> "configuration_error"
      [] s = "CONTRACT_VERIFICATION_ERROR" -> "contract_verification_error"
      [] s = "\nCaused by: " -> "\ncaused by: "
      [] s = "ALL" -> "all"
      [] s = "Modules" -> "modules"
      [] s = "0xAB12" -> "0xab12"
      [] OTHER -> s

retryablePatterns ==
    {"network", "timeout", "connection", "econnreset", "etimedout", "eai_again",
     "rate limit", "too many requests", "service unavailable", "bad gateway",
     "gateway timeout"}

\* the retryablePatterns that occur as a substring of s (case-sensitive)
PatternsIn(s) ==
    CASE s = "request timeout" -> {"timeout"}
      [] s = "Request Timeout" -> {}
      [] s = "econnreset" -> {"econnreset"}
      [] s = "network_error" -> {"network"}
      [] OTHER -> {}

includes(pieces, pattern) == \E i \in 1..Len(pieces) : pattern \in PatternsIn(pieces[i])

(***************************************************************************)
(* utils/retry.ts                                                          *)
(***************************************************************************)
DefaultIsRetryableTxRetried(error) ==
    IF InstanceOf(error, "NetworkError") THEN TRUE
    ELSE LET errorMessage == [i \in 1..Len(formatError(error)) |-> toLowerCase(formatError(error)[i])]
         IN \E pattern \in retryablePatterns : includes(errorMessage, pattern)

\* DEFAULT_RETRY_OPTIONS.isRetryable
DefaultIsRetryable(error) ==
    IF InstanceOf(error, "NetworkError") THEN TRUE
    ELSE IF InstanceOf(error, "TransactionError") THEN FALSE
    ELSE LET errorMessage == [i \in 1..Len(formatError(error)) |-> toLowerCase(formatError(error)[i])]
         IN \E pattern \in retryablePatterns : includes(errorMessage, pattern)

\* DEFAULT_RETRY_OPTIONS.delayFn
DefaultDelayFn(attempt) ==
    LET config == DEPLOYMENT_CONFIG.retries
        delay == config.initialDelayMs * Pow(config.backoffMultiplier, attempt - 1)
    IN Min(delay, config.maxDelayMs)

\* An entry of the options argument: the key is missing, or present with a
\* value (which for delayFn may be the value undefined)
Missing == [set |-> FALSE]
Given(v) == [set |-> TRUE, v |-> v]
DefaultFn == [kind |-> "default"]
UndefinedFn == [kind |-> "undefined"]
FixedDelayFn(delayMs) == [kind |-> "fixed", ms |-> delayMs]
ClassesFn(classes) == [kind |-> "classes", classes |-> classes]

\* const opts = { ...DEFAULT_RETRY_OPTIONS, ...options }: a key of `options`
\* that is present wins, also when its value is undefined
Spread(default, given) == IF given.set THEN given.v ELSE default

MergeOptions(options) ==
    [ maxAttempts |-> Spread(DEPLOYMENT_CONFIG.retries.maxAttempts, options.maxAttempts),
      initialDelayMs |-> Spread(DEPLOYMENT_CONFIG.retries.initialDelayMs, options.initialDelayMs),
      maxDelayMs |-> Spread(DEPLOYMENT_CONFIG.retries.maxDelayMs, options.maxDelayMs),
      backoffMultiplier |-> Spread(DEPLOYMENT_CONFIG.retries.backoffMultiplier, options.backoffMultiplier),
      isRetryable |-> Spread(DefaultFn, options.isRetryable),
      delayFn |-> Spread(DefaultFn, options.delayFn) ]

\* opts.isRetryable(error); a list of classes is retryOnErrors' classifier
IsRetryable(opts, error) ==
    IF opts.isRetryable.kind = "default" THEN DefaultIsRetryable(error)
    ELSE \E ErrorClass \in opts.isRetryable.classes : InstanceOf(error, ErrorClass)

\* opts.delayFn(attempt): the default, or retryWithFixedDelay's () => delayMs
CallDelayFn(opts, attempt) ==
    IF opts.delayFn.kind = "default" THEN DefaultDelayFn(attempt) ELSE opts.delayFn.ms

\* const delay = opts.delayFn ? opts.delayFn(attempt) : initialDelayMs * pow(...)
Delay(opts, attempt) ==
    IF opts.delayFn.kind # "undefined"
    THEN CallDelayFn(opts, attempt)
    ELSE opts.initialDelayMs * Pow(opts.backoffMultiplier, attempt - 1)

ClampedDelayUnclamped(opts, attempt) == Delay(opts, attempt)

\* const clampedDelay = Math.min(delay, opts.maxDelayMs)
ClampedDelay(opts, attempt) == Min(Delay(opts, attempt), opts.maxDelayMs)

IsLastAttemptEarly(opts, attempt) == attempt = opts.maxAttempts - 1

\* if (attempt === opts.maxAttempts) throw error
IsLastAttempt(opts, attempt) == attempt = opts.maxAttempts

\* ---------------------------------------------------------------------------
\* Inputs of retry(): the errors fn() may raise and the options a caller passes
\* ---------------------------------------------------------------------------
MaxAttemptsOpt == 3

NoError == [cls |-> "none", message |-> "", cause |-> Undefined, id |-> 0]
\* `let lastError: unknown` before any assignment
UndefinedError == [cls |-> "undefined", message |-> "", cause |-> Undefined, id |-> 0]

ErrorKinds ==
    { [cls |-> "NetworkError", message |-> "RPC unreachable", cause |-> Undefined],
      [cls |-> "TransactionError", message |-> "Request Timeout", cause |-> Undefined],
      [cls |-> "Error", message |-> "Request Timeout", cause |-> Undefined],
      [cls |-> "Error", message |-> "execution reverted", cause |-> Undefined],
      [cls |-> "ValidationError", message |-> "bad field", cause |-> "ECONNRESET"] }

\* the error object raised by the n-th invocation of fn()
ErrorOf(kind, n) == [cls |-> kind.cls, message |-> kind.message, cause |-> kind.cause, id |-> n]

RetryOptionSets ==
    [ maxAttempts : {Missing} \cup {Given(n) : n \in 0..MaxAttemptsOpt},
      initialDelayMs : {Missing, Given(1000)},
      maxDelayMs : {Missing, Given(2500)},
      backoffMultiplier : {Missing, Given(1), Given(3)},
      isRetryable : {Missing, Given(ClassesFn({"NetworkError"}))},
      delayFn : {Missing, Given(UndefinedFn), Given(FixedDelayFn(50))} ]

\* retry(fn, options) is entered: let lastError; attempt = 1
RetryEnter(options) ==
    /\ rOptions = options
    /\ rPc = "call"
    /\ rAttempt = 1
    /\ rErrors = <<>>
    /\ rCalls = 0
    /\ rDelay = 0
    /\ rSleeps = <<>>
    /\ rThrown = NoError
    /\ rValue = Undefined

RetryReturnKeepsLooping(v) ==
    /\ rValue' = v
    /\ rPc' = "call"
    /\ UNCHANGED <<rErrors, rThrown, rDelay>>

\* return await fn(): the value of fn() leaves retry() (line 221)
RetryReturn(v) ==
    /\ rValue' = v
    /\ rPc' = "returned"
    /\ UNCHANGED <<rErrors, rThrown, rDelay>>

\* One pass of the loop body up to the next await: fn() is invoked and
\* returns a value of `values` or raises an error (lines 219-243)
RetryInvoke(values) ==
    LET opts == MergeOptions(rOptions) IN
    /\ rPc = "call"
    /\ rAttempt <= opts.maxAttempts
    /\ rCalls' = rCalls + 1
    /\ \/ \E v \in values : RetryReturn(v)
       \/ \E kind \in ErrorKinds :
            LET error == ErrorOf(kind, rCalls + 1) IN
            /\ rErrors' = Append(rErrors, error)
            /\ IF ~IsRetryable(opts, error) \/ IsLastAttempt(opts, rAttempt)
               THEN /\ rThrown' = error
                    /\ rPc' = "thrown"
                    /\ UNCHANGED rDelay
               ELSE /\ rDelay' = ClampedDelay(opts, rAttempt)
                    /\ rPc' = "sleep"
                    /\ UNCHANGED rThrown
            /\ UNCHANGED rValue
    /\ UNCHANGED <<rOptions, rAttempt, rSleeps>>

\* await wait(clampedDelay); attempt++ (lines 244, 219)
RetryWait ==
    /\ rPc = "sleep"
    /\ rSleeps' = Append(rSleeps, rDelay)
    /\ rAttempt' = rAttempt + 1
    /\ rPc' = "call"
    /\ UNCHANGED <<rOptions, rErrors, rCalls, rDelay, rThrown, rValue>>

\* the loop condition fails: throw lastError (line 249)
RetryLoopExit ==
    /\ rPc = "call"
    /\ rAttempt > MergeOptions(rOptions).maxAttempts
    /\ rThrown' = (IF rErrors = <<>> THEN UndefinedError ELSE rErrors[Len(rErrors)])
    /\ rPc' = "thrown"
    /\ UNCHANGED <<rOptions, rAttempt, rErrors, rCalls, rDelay, rSleeps, rValue>>

\* retry(fn) called without options
NoOptions ==
    [ maxAttempts |-> Missing, initialDelayMs |-> Missing, maxDelayMs |-> Missing,
      backoffMultiplier |-> Missing, isRetryable |-> Missing, delayFn |-> Missing ]

\* no retry() call is running
RetryOff ==
    /\ rOptions = NoOptions
    /\ rPc = "off"
    /\ rAttempt = 1
    /\ rErrors = <<>>
    /\ rCalls = 0
    /\ rDelay = 0
    /\ rSleeps = <<>>
    /\ rThrown = NoError
    /\ rValue = Undefined

\* no estimateDeploymentGas() call is running
GasOff ==
    /\ gPc = "off"
    /\ gClient = FALSE
    /\ gGas = 0
    /\ gEstimateCalls = 0
    /\ gPriceCalls = 0
    /\ gResult = Undefined
    /\ gThrown = NoError

\* no batch loop is running
BatchIdle ==
    /\ bArtifacts = <<>>
    /\ bCode = {}
    /\ bRun = 0
    /\ bPc = "off"
    /\ bIdx = 0
    /\ bResult = [contractName |-> ""]
    /\ bReceipt = [status |-> "none"]
    /\ bResults = <<>>
    /\ successCount = 0
    /\ failureCount = 0
    /\ bPrecheck = <<>>
    /\ bAttempted = {}
    /\ bSent = <<>>
    /\ bTxTotal = 0
    /\ bSaved = {}
    /\ bWaited = {}
    /\ bSummary = Missing
    /\ bExit = Missing
    /\ bFatal = "none"
    /\ bChainHash = "none"
    /\ bWarned = {}

\* no batch script is running
BatchOff ==
    /\ bScript = "none"
    /\ BatchIdle

\* no script is writing result files
SinkOff ==
    /\ sPc = "off"
    /\ sRun = 0
    /\ sNow = 0
    /\ sEnv = Missing
    /\ deploymentSessionId = Missing
    /\ sLastSaved = 0
    /\ sTxCount = 0
    /\ sContractFiles = <<>>
    /\ sSessionFiles = <<>>
    /\ sSummaryFile = [exists |-> FALSE]
    /\ sLatestFile = [exists |-> FALSE]
    /\ sWritten = <<>>
    /\ sAppended = <<>>
    /\ sLastCall = "none"
    /\ sSummaryCall = [ending |-> "none"]
    /\ sSessionsUsed = {}

\* no validation call is running
ValidationOff ==
    /\ vPc = "off"
    /\ vArgs = <<>>
    /\ vResult = <<>>

RetryInit ==
    /\ \E options \in RetryOptionSets : RetryEnter(options)
    /\ GasOff
    /\ BatchOff
    /\ SinkOff
    /\ ValidationOff

RetryFn == RetryInvoke({"success"}) /\ UNCHANGED <<gasVars, batchVars, sinkVars, validationVars>>
RetrySleep == RetryWait /\ UNCHANGED <<gasVars, batchVars, sinkVars, validationVars>>
RetryExhausted == RetryLoopExit /\ UNCHANGED <<gasVars, batchVars, sinkVars, validationVars>>

RetryNext == RetryFn \/ RetrySleep \/ RetryExhausted

SpecRetry == RetryInit /\ [][RetryNext]_vars

\* fn() returns or throws and the timer of wait() fires: a retry() call that
\* can take a step takes one
SpecRetryFair == RetryInit /\ [][RetryNext]_vars /\ WF_vars(RetryNext)

\* ---------------------------------------------------------------------------
\* retryWithFixedDelay(fn, maxAttempts = 3, delayMs = 1000)
\* ---------------------------------------------------------------------------
\* the options object retryWithFixedDelay hands to retry(); an argument that
\* is missing takes its default value
RetryWithFixedDelay(maxAttempts, delayMs) ==
    [ maxAttempts |-> Given(Spread(3, maxAttempts)),
      initialDelayMs |-> Missing,
      maxDelayMs |-> Missing,
      backoffMultiplier |-> Missing,
      isRetryable |-> Missing,
      delayFn |-> Given(FixedDelayFn(Spread(1000, delayMs))) ]

\* delays a caller passes: none, below, at and above the default maxDelayMs
FixedDelays == {Missing, Given(0), Given(50), Given(30000), Given(45000)}

FixedDelayInit ==
    /\ \E maxAttempts \in {Missing} \cup {Given(n) : n \in 0..MaxAttemptsOpt},
          delayMs \in FixedDelays :
         RetryEnter(RetryWithFixedDelay(maxAttempts, delayMs))
    /\ GasOff
    /\ BatchOff
    /\ SinkOff
    /\ ValidationOff

SpecFixedDelay == FixedDelayInit /\ [][RetryNext]_vars

(***************************************************************************)
(* utils/gas.ts                                                            *)
(***************************************************************************)
\* getGasPriceFallback(): 20000000000n wei, counted here in gwei
GasPriceFallbackGwei == 20

\* values estimateGasFn and publicClient.getGasPrice can return
GasValues == {0, 2999999, 3000000, 3000001, 9999999, 10000000, 10000001}
GasPriceValues == {0, 7, 20}

\* the options both retry() calls of gas.ts pass (lines 35-38, 77-80)
GasRetryOptions ==
    [ maxAttempts |-> Given(3),
      initialDelayMs |-> Given(1000),
      maxDelayMs |-> Missing,
      backoffMultiplier |-> Missing,
      isRetryable |-> Missing,
      delayFn |-> Missing ]

GasWarningInclusive(gas) ==
    IF gas >= DEPLOYMENT_CONFIG.gas.maxLimit THEN "critical"
    ELSE IF gas >= DEPLOYMENT_CONFIG.gas.warningThreshold THEN "high"
    ELSE Undefined

\* let warning (lines 47-52)
GasWarning(gas) ==
    IF gas > DEPLOYMENT_CONFIG.gas.maxLimit THEN "critical"
    ELSE IF gas > DEPLOYMENT_CONFIG.gas.warningThreshold THEN "high"
    ELSE Undefined

\* the object returned at lines 44-59
GasEstimate(gas, gasPrice) ==
    [ gas |-> gas,
      gasPrice |-> gasPrice,
      estimatedCost |-> gas * gasPrice,
      warning |-> GasWarning(gas) ]

\* new GasEstimationError(`Failed to estimate gas: ...`, cause)
GasEstimationError(error) ==
    [cls |-> "GasEstimationError", message |-> "Failed to estimate gas", cause |-> error.message, id |-> error.id]

\* retry() is called again: fresh locals
RetryReset(options) ==
    /\ rOptions' = options
    /\ rPc' = "call"
    /\ rAttempt' = 1
    /\ rErrors' = <<>>
    /\ rCalls' = 0
    /\ rDelay' = 0
    /\ rSleeps' = <<>>
    /\ rThrown' = NoError
    /\ rValue' = Undefined

GasInit ==
    /\ RetryEnter(GasRetryOptions)
    /\ gPc = "estimate"
    /\ gClient \in BOOLEAN
    /\ gGas = 0
    /\ gEstimateCalls = 0
    /\ gPriceCalls = 0
    /\ gResult = Undefined
    /\ gThrown = NoError
    /\ BatchOff
    /\ SinkOff
    /\ ValidationOff

\* retry(estimateGasFn, ...) invokes estimateGasFn
GasEstimateInvoke ==
    /\ gPc = "estimate"
    /\ RetryInvoke(GasValues)
    /\ gEstimateCalls' = gEstimateCalls + 1
    /\ UNCHANGED <<gPc, gClient, gGas, gPriceCalls, gResult, gThrown>>
    /\ UNCHANGED <<batchVars, sinkVars, validationVars>>

\* retry(() => publicClient.getGasPrice(), ...) invokes getGasPrice
GasPriceInvoke ==
    /\ gPc = "price"
    /\ RetryInvoke(GasPriceValues)
    /\ gPriceCalls' = gPriceCalls + 1
    /\ UNCHANGED <<gPc, gClient, gGas, gEstimateCalls, gResult, gThrown>>
    /\ UNCHANGED <<batchVars, sinkVars, validationVars>>

\* the wait between two attempts of either retry() call
GasRetrySleep ==
    /\ gPc \in {"estimate", "price"}
    /\ RetryWait
    /\ UNCHANGED <<gasVars, batchVars, sinkVars, validationVars>>

\* const gas = await retry(...) completed; lines 40-42: with a publicClient
\* getGasPrice starts its own retry(), without one the fallback price is used
GasEstimated ==
    /\ gPc = "estimate"
    /\ rPc = "returned"
    /\ gGas' = rValue
    /\ IF gClient
       THEN /\ gPc' = "price"
            /\ RetryReset(GasRetryOptions)
            /\ UNCHANGED gResult
       ELSE /\ gPc' = "done"
            /\ gResult' = GasEstimate(rValue, GasPriceFallbackGwei)
            /\ UNCHANGED retryVars
    /\ UNCHANGED <<gClient, gEstimateCalls, gPriceCalls, gThrown>>
    /\ UNCHANGED <<batchVars, sinkVars, validationVars>>

GasEstimateFailedDefaults ==
    /\ gPc = "estimate"
    /\ rPc = "thrown"
    /\ gPc' = "done"
    /\ gGas' = DEPLOYMENT_CONFIG.gas.defaultLimit
    /\ gResult' = GasEstimate(DEPLOYMENT_CONFIG.gas.defaultLimit, GasPriceFallbackGwei)
    /\ UNCHANGED <<retryVars, gClient, gEstimateCalls, gPriceCalls, gThrown>>
    /\ UNCHANGED <<batchVars, sinkVars, validationVars>>

\* retry(estimateGasFn) threw: the catch at lines 60-65
GasEstimateFailed ==
    /\ gPc = "estimate"
    /\ rPc = "thrown"
    /\ gPc' = "thrown"
    /\ gThrown' = GasEstimationError(rThrown)
    /\ UNCHANGED <<retryVars, gClient, gGas, gEstimateCalls, gPriceCalls, gResult>>
    /\ UNCHANGED <<batchVars, sinkVars, validationVars>>

\* getGasPrice returned the RPC's price (line 82); lines 44-59
GasPriceFetched ==
    /\ gPc = "price"
    /\ rPc = "returned"
    /\ gPc' = "done"
    /\ gResult' = GasEstimate(gGas, rValue)
    /\ UNCHANGED <<retryVars, gClient, gGas, gEstimateCalls, gPriceCalls, gThrown>>
    /\ UNCHANGED <<batchVars, sinkVars, validationVars>>

GasPriceFailedThrows ==
    /\ gPc = "price"
    /\ rPc = "thrown"
    /\ gPc' = "thrown"
    /\ gThrown' = GasEstimationError(rThrown)
    /\ UNCHANGED <<retryVars, gClient, gGas, gEstimateCalls, gPriceCalls, gResult>>
    /\ UNCHANGED <<batchVars, sinkVars, validationVars>>

\* getGasPrice's retry() threw: catch at lines 83-87 returns the fallback
GasPriceFailed ==
    /\ gPc = "price"
    /\ rPc = "thrown"
    /\ gPc' = "done"
    /\ gResult' = GasEstimate(gGas, GasPriceFallbackGwei)
    /\ UNCHANGED <<retryVars, gClient, gGas, gEstimateCalls, gPriceCalls, gThrown>>
    /\ UNCHANGED <<batchVars, sinkVars, validationVars>>

GasNext ==
    \/ GasEstimateInvoke
    \/ GasPriceInvoke
    \/ GasRetrySleep
    \/ GasEstimated
    \/ GasEstimateFailed
    \/ GasPriceFetched
    \/ GasPriceFailed

SpecGas == GasInit /\ [][GasNext]_vars

(***************************************************************************)
(* Batch deployment scripts: scripts/deploy-1.4.1.ts (the 1.3.0 EIP-155    *)
(* script has the same loop and deployContract), the 1.3.0 canonical       *)
(* script and the modules script.                                          *)
(***************************************************************************)
MaxArtifacts == 2
MaxRuns == 2

Scripts == {"deploy-1.4.1", "deploy-1.3.0-canonical", "deploy-modules"}

\* the script wraps each artifact's load and deployContract call in try/catch
LoopLoadsFiles(script) == script # "deploy-modules"

\* the pre-deployment getBytecode sits in its own try/catch
PrecheckInOwnTry(script) == script # "deploy-1.3.0-canonical"

\* file names of the deployment data directory
ContractNames == <<"create_call", "multi_send", "safe", "safe_l2">>

\* a deployment data file: can it be parsed, and which fields it carries
ArtifactKinds ==
    { [readable |-> FALSE, hasTo |-> FALSE, hasData |-> FALSE, hasExpected |-> FALSE, codeHash |-> Missing],
      [readable |-> TRUE, hasTo |-> FALSE, hasData |-> TRUE, hasExpected |-> TRUE, codeHash |-> Missing],
      [readable |-> TRUE, hasTo |-> TRUE, hasData |-> FALSE, hasExpected |-> FALSE, codeHash |-> Missing],
      [readable |-> TRUE, hasTo |-> TRUE, hasData |-> TRUE, hasExpected |-> FALSE, codeHash |-> Missing],
      [readable |-> TRUE, hasTo |-> TRUE, hasData |-> TRUE, hasExpected |-> TRUE, codeHash |-> Missing] }

\* complete deployment data files with expectedAddress, without and with the
\* optional codeHash field
HashedArtifactKinds ==
    { [readable |-> TRUE, hasTo |-> TRUE, hasData |-> TRUE, hasExpected |-> TRUE, codeHash |-> Missing],
      [readable |-> TRUE, hasTo |-> TRUE, hasData |-> TRUE, hasExpected |-> TRUE, codeHash |-> Given("0xAB12")] }

HashedArtifactLists == UNION { [1..n -> HashedArtifactKinds] : n \in 1..MaxArtifacts }

\* code hashes of the bytecode the chain can hold at an expected address
ChainCodeHashes == {"0xab12", "0xcd34"}

\* proof.codeHash of an account without code
ZeroCodeHash == "0x0000000000000000000000000000000000000000000000000000000000000000"
EmptyCodeHash == "0xc5d2460186f7233c927e7db2dcc703c0e500b653ca82273b7bfad8045d85a470"

\* what a getProof call at `address` can do: resolve with proof.codeHash or throw
ProofOutcomes(address) ==
    (IF address \in bCode THEN {bChainHash} ELSE {Undefined, ZeroCodeHash, EmptyCodeHash})
        \cup {"throw"}

\* proof.codeHash && proof.codeHash !== "0x00...00"
CodeHashFound(codeHash) == codeHash # Undefined /\ codeHash # ZeroCodeHash

\* deploymentData.codeHash is given and differs from proof.codeHash, both lower-cased
CodeHashMismatch(proofCodeHash, codeHash) ==
    codeHash.set /\ toLowerCase(proofCodeHash) # toLowerCase(codeHash.v)

ArtifactLists == UNION { [1..n -> ArtifactKinds] : n \in 1..MaxArtifacts }

\* deploymentData.expectedAddress of the k-th artifact: address k
ExpectedAddress(k) == IF bArtifacts[k].hasExpected THEN Given(k) ELSE Missing

\* an address that differs from every expectedAddress
OtherAddress == 99

\* values publicClient.getBytecode resolves to
NoBytecodeValues == {Undefined, "0x"}
DeployedBytecode == "0x6080"

\* what a getBytecode call at `address` can do: resolve to the chain's code or throw
ReadOutcomes(address) ==
    (IF address \in bCode THEN {DeployedBytecode} ELSE NoBytecodeValues) \cup {"throw"}

HasBytecodeInverted(bytecode) == bytecode # Undefined /\ bytecode = "0x"

\* existingBytecode && existingBytecode !== "0x"
HasBytecode(bytecode) == bytecode # Undefined /\ bytecode # "0x"

\* receipts waitForTransactionReceipt can resolve to
BlockNumbers == {7}
GasUsedValues == {21000}
Receipts ==
    [ status : {"success"},
      contractAddress : {Missing, Given(OtherAddress)},
      blockNumber : BlockNumbers,
      gasUsed : GasUsedValues ]
    \cup
    [ status : {"reverted"},
      contractAddress : {Missing},
      blockNumber : BlockNumbers,
      gasUsed : GasUsedValues ]

\* an Error raised by the RPC client, the file system or the runtime
ThrownError(message) == [cls |-> "Error", message |-> message, cause |-> Undefined, id |-> 0]

\* const result = { contractName, success: false, expectedAddress }
NewResult(contractName, expectedAddress) ==
    [ contractName |-> contractName,
      success |-> FALSE,
      txHash |-> Missing,
      contractAddress |-> Missing,
      expectedAddress |-> expectedAddress,
      blockNumber |-> Missing,
      gasUsed |-> Missing,
      error |-> Missing ]

\* the object main() pushes itself: { contractName, success: false, error }
LoopFailureResult(contractName, error) ==
    [NewResult(contractName, Missing) EXCEPT !.error = Given(error)]

CatchResultFromScratch(result, error) ==
    [result EXCEPT !.success = FALSE, !.error = Given(formatError(error)),
                   !.txHash = Missing]

\* deployContract's catch block: result.success = false; result.error = ...
CatchResult(result, error) ==
    [result EXCEPT !.success = FALSE, !.error = Given(formatError(error))]

AlreadyDeployedResultNoAddress(result, expectedAddress) ==
    [result EXCEPT !.success = TRUE, !.expectedAddress = expectedAddress]

\* the early return of the idempotency check
AlreadyDeployedResult(result, expectedAddress) ==
    [result EXCEPT !.success = TRUE,
                   !.contractAddress = expectedAddress,
                   !.expectedAddress = IF PrecheckInOwnTry(bScript) THEN expectedAddress ELSE @]

PushResultUnlessFailed(results, result) ==
    IF result.success THEN Append(results, result) ELSE results

\* results.push(result)
PushResult(results, result) == Append(results, result)

NextIndexBreakOnFailure(result, idx) ==
    IF result.success THEN idx + 1 ELSE Len(bArtifacts) + 1

\* the for..of loop moves on to the next file, whatever the result
NextIndex(result, idx) == idx + 1

\* null in a JSON file
Null == [set |-> FALSE, null |-> TRUE]

\* BigInt.prototype.toString on the numbers of the model
DecimalString(n) ==
    CASE n = 0 -> "0"
      [] n = 7 -> "7"
      [] n = 8 -> "8"
      [] n = 21000 -> "21000"

\* value || null
OrNull(value) == IF value.set THEN value ELSE Null

\* value ? value.toString() : null, for a bigint (0n is falsy)
DecimalOrNull(value) ==
    IF value.set /\ value.v # 0 THEN Given(DecimalString(value.v)) ELSE Null

\* one entry of summary.deployments (results.map, lines 143-152)
SummaryEntry(result) ==
    [ contractName |-> result.contractName,
      success |-> result.success,
      txHash |-> OrNull(result.txHash),
      blockNumber |-> DecimalOrNull(result.blockNumber),
      contractAddress |-> OrNull(result.contractAddress),
      expectedAddress |-> OrNull(result.expectedAddress),
      gasUsed |-> DecimalOrNull(result.gasUsed),
      error |-> OrNull(result.error) ]

SummarySuccessfulIsTotal(results) ==
    [ totalContracts |-> Len(results),
      successful |-> Len(results),
      failed |-> Cardinality({i \in 1..Len(results) : ~results[i].success}),
      deployments |-> [i \in 1..Len(results) |-> SummaryEntry(results[i])] ]

\* createGitHubActionsSummary's summary object
Summary(results) ==
    [ totalContracts |-> Len(results),
      successful |-> Cardinality({i \in 1..Len(results) : results[i].success}),
      failed |-> Cardinality({i \in 1..Len(results) : ~results[i].success}),
      deployments |-> [i \in 1..Len(results) |-> SummaryEntry(results[i])] ]

\* state of a script invocation that starts on the chain `code`
BatchStart(script, artifacts, code, run, txTotal) ==
    /\ bScript = script
    /\ bArtifacts = artifacts
    /\ bCode = code
    /\ bRun = run
    /\ bPc = "start"
    /\ bIdx = 1
    /\ bResult = [contractName |-> ""]
    /\ bReceipt = [status |-> "none"]
    /\ bResults = <<>>
    /\ successCount = 0
    /\ failureCount = 0
    /\ bPrecheck = [k \in 1..Len(artifacts) |-> "none"]
    /\ bAttempted = {}
    /\ bSent = [k \in 1..Len(artifacts) |-> 0]
    /\ bTxTotal = txTotal
    /\ bSaved = {}
    /\ bWaited = {}
    /\ bSummary = Missing
    /\ bExit = Missing
    /\ bFatal = "none"
    /\ bWarned = {}

\* the modules script parses its (at most two) files before the loop, where
\* a parse error is fatal
ValidBatch(script, artifacts) ==
    script = "deploy-modules" =>
        /\ Len(artifacts) <= 2
        /\ \A k \in 1..Len(artifacts) : artifacts[k].readable

BatchInit ==
    /\ RetryOff
    /\ GasOff
    /\ SinkOff
    /\ ValidationOff
    /\ \E script \in Scripts, artifacts \in ArtifactLists :
         /\ ValidBatch(script, artifacts)
         /\ \E code \in SUBSET {k \in 1..Len(artifacts) : artifacts[k].hasExpected} :
              BatchStart(script, artifacts, code, 1, 0)
    /\ bChainHash = "0xab12"

batchFrame == <<bScript, bArtifacts, bRun, bTxTotal, bSummary, bExit, bFatal, bChainHash>>

ReturnUncollected(result) ==
    /\ bResult' = result
    /\ bPc' = "wait"

\* deployContract returns `result` to main()
Return(result) ==
    /\ bResult' = result
    /\ bPc' = "push"

\* ---------------------------------------------------------------------------
\* main() before the batch: the configuration read from process.env
\* ---------------------------------------------------------------------------
\* the scripts that resolve an RPC URL: the batch scripts and
\* send-deployment-tx.ts, which sends one artifact
ConfigScripts == Scripts \cup {"send-deployment-tx"}

\* the scripts built on utils/validation.ts and utils/deployment.ts
UsesUtilities(script) == script \in {"deploy-1.4.1", "deploy-modules"}

\* new URL(rpcUrl).protocol; new URL throws a TypeError for the other strings
UrlProtocol(rpcUrl) ==
    CASE rpcUrl = "ftp://rpc.example" -> "ftp:"
      [] rpcUrl = "https://custom.example" -> "https:"
      [] rpcUrl = "https://sepolia.example" -> "https:"
      [] rpcUrl = "https://lowercase.example" -> "https:"
      [] rpcUrl = "https://rpc.example" -> "https:"
      [] rpcUrl = "http://127.0.0.1:8545" -> "http:"
      [] OTHER -> "TypeError"

\* s.trim() === ""
TrimmedEmpty(s) == s \in {"", " "}

\* validateRpcUrl(rpcUrl) throws
RpcUrlRejected(rpcUrl) ==
    \/ TrimmedEmpty(rpcUrl)
    \/ UrlProtocol(rpcUrl) \notin {"http:", "https:", "ws:", "wss:"}

\* What main() finds: process.env (a variable that is not set reads as ""),
\* the network name, whether the deployment data directory exists and
\* whether the RPC answers getChainId.
Environments ==
    [ PRIVATE_KEY : {"", " ", "0xkey"},
      CUSTOM_RPC_URL : {"", " ", "not a url", "ftp://rpc.example", "https://custom.example"},
      SEPOLIA_RPC_URL : {"", "https://sepolia.example"},
      sepolia_RPC_URL : {"", "https://lowercase.example"},
      RPC_URL : {"", "https://rpc.example"},
      networkName : {"localhost", "sepolia"},
      directory : BOOLEAN,
      chainId : BOOLEAN ]

\* the environments the batch scripts are run in: only CUSTOM_RPC_URL set
BatchEnvironments ==
    {env \in Environments :
        /\ env.SEPOLIA_RPC_URL = ""
        /\ env.sepolia_RPC_URL = ""
        /\ env.RPC_URL = ""
        /\ env.networkName = "sepolia"}

\* process.env[name]
GetEnv(env, name) == IF name \in DOMAIN env THEN env[name] ELSE ""

\* String.prototype.toUpperCase on the network names of the model
toUpperCase(s) ==
    CASE s = "sepolia" -> "SEPOLIA"
      [] s = "localhost" -> "LOCALHOST"

\* `${networkName.toUpperCase()}_RPC_URL`
NetworkRpcUrlVariable(networkName) ==
    CASE toUpperCase(networkName) = "SEPOLIA" -> "SEPOLIA_RPC_URL"
      [] toUpperCase(networkName) = "LOCALHOST" -> "LOCALHOST_RPC_URL"

\* a || b on strings
Or(a, b) == IF a # "" THEN a ELSE b

\* (networkName === "localhost" ? "http://127.0.0.1:8545" : "")
LocalhostDefault(networkName) ==
    IF networkName = "localhost" THEN "http://127.0.0.1:8545" ELSE ""

\* const rpcUrl = process.env.CUSTOM_RPC_URL || process.env[...] ||
\* process.env.RPC_URL || (localhost default); send-deployment-tx.ts has no
\* CUSTOM_RPC_URL term
ResolveRpcUrl(script, env) ==
    LET rest == Or(GetEnv(env, NetworkRpcUrlVariable(env.networkName)),
                   Or(GetEnv(env, "RPC_URL"), LocalhostDefault(env.networkName)))
    IN IF script = "send-deployment-tx" THEN rest
       ELSE Or(GetEnv(env, "CUSTOM_RPC_URL"), rest)

REQUIRED_ENV_VARS == {"PRIVATE_KEY", "CUSTOM_RPC_URL"}

\* validateEnvironment() throws
EnvironmentRejected(env) ==
    \E varName \in REQUIRED_ENV_VARS :
        GetEnv(env, varName) = "" \/ TrimmedEmpty(GetEnv(env, varName))

\* the private key checks of the scripts without the utilities:
\* !privateKey, !privateKey.startsWith("0x")
PrivateKeyRejected(env) == env.PRIVATE_KEY \in {"", " "}

\* The first check of main() that fails before its first await, in the
\* order of each script; "none" when main() reaches its first RPC call.
ConfigurationFailure(script, env) ==
    LET rpcUrl == ResolveRpcUrl(script, env) IN
    IF UsesUtilities(script)
    THEN IF EnvironmentRejected(env) THEN "environment"
         ELSE IF rpcUrl = "" THEN "no-rpc-url"
         ELSE IF RpcUrlRejected(rpcUrl) THEN "rpc-url"
         ELSE IF ~env.directory THEN "directory"
         ELSE "none"
    ELSE IF rpcUrl = "" THEN "no-rpc-url"
         ELSE IF PrivateKeyRejected(env) THEN "environment"
         ELSE IF ~env.directory THEN "directory"
         ELSE "none"

\* the first RPC call of main() fails: the RPC does not answer, or the
\* transport cannot use the URL
FirstCallFails(script, env) ==
    RpcUrlRejected(ResolveRpcUrl(script, env)) \/ ~env.chainId

\* the fatal error that ends main() before the batch, or "none"
PreBatchError(script, env) ==
    IF ConfigurationFailure(script, env) # "none" THEN ConfigurationFailure(script, env)
    ELSE IF FirstCallFails(script, env) THEN "chain-id"
    ELSE "none"

\* main() is started with one script and one environment
ConfigInit ==
    /\ RetryOff
    /\ GasOff
    /\ BatchOff
    /\ SinkOff
    /\ vPc = "call"
    /\ vArgs \in [script : ConfigScripts, env : Environments]
    /\ vResult = [rpcUrl |-> "", fatal |-> "none", exit |-> Missing, calls |-> <<>>]

\* main() up to its first await: the checks of the environment, the RPC URL
\* and the directory; a failed check ends the process with exit code 1.
\* validateEnvironment() runs before rpcUrl is computed.
ReadConfiguration ==
    LET script == vArgs.script
        env == vArgs.env
        fatal == ConfigurationFailure(script, env)
        resolved == ~(UsesUtilities(script) /\ EnvironmentRejected(env))
    IN
    /\ vPc = "call"
    /\ vResult' = [vResult EXCEPT !.rpcUrl = IF resolved THEN ResolveRpcUrl(script, env) ELSE "",
                                  !.fatal = fatal,
                                  !.exit = IF fatal # "none" THEN Given(1) ELSE Missing]
    /\ vPc' = IF fatal # "none" THEN "exited"
              ELSE IF script \in Scripts THEN "rpc"
              ELSE "returned"
    /\ UNCHANGED vArgs
    /\ UNCHANGED <<retryVars, gasVars, batchVars, sinkVars>>

\* const chainId = await getChainId(rpcUrl) / await publicClient.getChainId():
\* the first RPC call of a batch script; its failure is fatal
FetchChainId ==
    /\ vPc = "rpc"
    /\ IF FirstCallFails(vArgs.script, vArgs.env)
       THEN /\ vResult' = [vResult EXCEPT !.calls = Append(@, "getChainId"),
                                          !.fatal = "chain-id",
                                          !.exit = Given(1)]
            /\ vPc' = "exited"
       ELSE /\ vResult' = [vResult EXCEPT !.calls = Append(@, "getChainId")]
            /\ vPc' = "returned"
    /\ UNCHANGED vArgs
    /\ UNCHANGED <<retryVars, gasVars, batchVars, sinkVars>>

ConfigNext == ReadConfiguration \/ FetchChainId

SpecConfig == ConfigInit /\ [][ConfigNext]_vars

\* main() up to the loop: a failed check ends the process with exit code 1
PreBatch ==
    /\ bPc = "start"
    /\ \E env \in BatchEnvironments :
         IF PreBatchError(bScript, env) = "none"
         THEN /\ bPc' = "loop"
              /\ UNCHANGED <<bExit, bFatal>>
         ELSE /\ bPc' = "fatal"
              /\ bExit' = Given(1)
              /\ bFatal' = PreBatchError(bScript, env)
    /\ UNCHANGED <<bScript, bArtifacts, bRun, bTxTotal, bSummary, bCode, bIdx, bResult, bReceipt,
                   bResults, successCount, failureCount, bPrecheck, bAttempted, bSent,
                   bSaved, bWaited, bChainHash, bWarned>>
    /\ UNCHANGED <<retryVars, gasVars, sinkVars, validationVars>>

\* the first await after the idempotency check: sendTransaction, preceded in
\* the 1.3.0 canonical script by the nonce, gas price and gas estimate lookups
AfterPrecheck == IF bScript = "deploy-1.3.0-canonical" THEN "nonce" ELSE "send"

\* One iteration of the loop starts: the file is read and checked, and
\* deployContract runs up to its first await
LoadArtifact ==
    LET a == bArtifacts[bIdx]
        name == ContractNames[bIdx]
    IN
    /\ bPc = "loop"
    /\ bIdx <= Len(bArtifacts)
    /\ bAttempted' = bAttempted \cup {bIdx}
    /\ IF LoopLoadsFiles(bScript) /\ ~a.readable
       THEN \* JSON.parse throws: the loop's catch block
            LET r == LoopFailureResult(name, formatError(ThrownError("Unexpected end of JSON input"))) IN
            /\ bResults' = PushResult(bResults, r)
            /\ failureCount' = failureCount + 1
            /\ bResult' = r
            /\ bIdx' = NextIndex(r, bIdx)
            /\ UNCHANGED bPc
       ELSE IF LoopLoadsFiles(bScript) /\ (~a.hasTo \/ ~a.hasData)
       THEN LET r == LoopFailureResult(name, <<"Invalid deployment data: missing 'to' or 'data' field">>) IN
            /\ bResults' = PushResult(bResults, r)
            /\ failureCount' = failureCount + 1
            /\ bResult' = r
            /\ bIdx' = NextIndex(r, bIdx)
            /\ UNCHANGED bPc
       ELSE IF ~a.hasData
       THEN \* deploymentData.data.length throws a TypeError inside the try
            /\ Return(CatchResult(NewResult(name, ExpectedAddress(bIdx)),
                                  ThrownError("Cannot read properties of undefined")))
            /\ UNCHANGED <<bResults, failureCount, bIdx>>
       ELSE /\ bResult' = NewResult(name, ExpectedAddress(bIdx))
            /\ bPc' = IF ~a.hasExpected THEN AfterPrecheck
                      ELSE IF bScript = "deploy-1.3.0-canonical" THEN "proof"
                      ELSE "check"
            /\ UNCHANGED <<bResults, failureCount, bIdx>>
    /\ UNCHANGED <<batchFrame, bWarned, bCode, bReceipt, successCount, bPrecheck, bSent, bSaved, bWaited>>
    /\ UNCHANGED <<retryVars, gasVars, sinkVars, validationVars>>

\* await publicClient.getProof(...) in its own try/catch: its outcome is only
\* logged, a differing code hash with console.warn
GetProof ==
    /\ bPc = "proof"
    /\ bPc' = "check"
    /\ \E outcome \in ProofOutcomes(bIdx) :
         bWarned' = IF /\ outcome # "throw"
                       /\ CodeHashFound(outcome)
                       /\ CodeHashMismatch(outcome, bArtifacts[bIdx].codeHash)
                    THEN bWarned \cup {bIdx}
                    ELSE bWarned
    /\ UNCHANGED <<batchFrame, bCode, bIdx, bResult, bReceipt, bResults, successCount,
                   failureCount, bPrecheck, bAttempted, bSent, bSaved, bWaited>>
    /\ UNCHANGED <<retryVars, gasVars, sinkVars, validationVars>>

\* await publicClient.getBytecode({ address: expectedAddress }) before sending
CheckExistence ==
    /\ bPc = "check"
    /\ \E outcome \in ReadOutcomes(bIdx) :
         /\ bPrecheck' = [bPrecheck EXCEPT ![bIdx] = outcome]
         /\ IF outcome = "throw"
            THEN IF PrecheckInOwnTry(bScript)
                 THEN /\ bPc' = AfterPrecheck
                      /\ UNCHANGED bResult
                 ELSE Return(CatchResult(bResult, ThrownError("HTTP request failed")))
            ELSE IF HasBytecode(outcome)
                 THEN Return(AlreadyDeployedResult(bResult, ExpectedAddress(bIdx)))
                 ELSE /\ bPc' = AfterPrecheck
                      /\ UNCHANGED bResult
    /\ UNCHANGED <<batchFrame, bWarned, bCode, bIdx, bReceipt, bResults, successCount,
                   failureCount, bAttempted, bSent, bSaved, bWaited>>
    /\ UNCHANGED <<retryVars, gasVars, sinkVars, validationVars>>

\* 1.3.0 canonical: await getTransactionCount, await getGasPrice (a failure of
\* either reaches the catch block), await estimateGas (failure falls back)
PrepareTransaction ==
    /\ bPc \in {"nonce", "gasPrice", "estimateGas"}
    /\ \/ /\ bPc' = (CASE bPc = "nonce" -> "gasPrice"
                       [] bPc = "gasPrice" -> "estimateGas"
                       [] bPc = "estimateGas" -> "send")
          /\ UNCHANGED bResult
       \/ /\ bPc # "estimateGas"
          /\ Return(CatchResult(bResult, ThrownError("HTTP request failed")))
    /\ UNCHANGED <<batchFrame, bWarned, bCode, bIdx, bReceipt, bResults, successCount,
                   failureCount, bPrecheck, bAttempted, bSent, bSaved, bWaited>>
    /\ UNCHANGED <<retryVars, gasVars, sinkVars, validationVars>>

AfterSendUntilTwice == IF bSent[bIdx] = 0 THEN "send" ELSE "confirm"

\* what follows a sendTransaction that resolved: the wait for its receipt
AfterSend == "confirm"

\* const hash = await client.sendTransaction(...); result.txHash = hash
SendTransaction ==
    /\ bPc = "send"
    /\ bSent' = [bSent EXCEPT ![bIdx] = @ + 1]
    /\ bTxTotal' = bTxTotal + 1
    /\ \/ /\ bResult' = [bResult EXCEPT !.txHash = Given(bTxTotal + 1)]
          /\ bPc' = AfterSend
       \/ Return(CatchResult(bResult, ThrownError("insufficient funds")))
    /\ UNCHANGED <<bScript, bArtifacts, bRun, bSummary, bExit, bFatal, bCode, bIdx, bReceipt, bResults,
                   successCount, failureCount, bPrecheck, bAttempted, bSaved, bWaited,
                   bChainHash, bWarned>>
    /\ UNCHANGED <<retryVars, gasVars, sinkVars, validationVars>>

\* saveDeploymentTransaction(...) and the return that follows it: the files
\* are written, or a file system call throws into deployContract's catch
SaveAndReturn(result) ==
    \/ /\ bSaved' = bSaved \cup {bIdx}
       /\ Return(result)
    \/ /\ bSaved' = bSaved \cup {bIdx}
       /\ Return(CatchResult(result, ThrownError("ENOSPC: no space left on device")))

ReceiptAddressResultRequired(result, receipt) ==
    IF receipt.contractAddress.set
    THEN [result EXCEPT !.contractAddress = receipt.contractAddress]
    ELSE [result EXCEPT !.success = FALSE,
                        !.error = Given(<<"No contract address available">>)]

\* else if (receipt.contractAddress) result.contractAddress = receipt.contractAddress;
\* else only a warning (lines 331-337)
ReceiptAddressResult(result, receipt) ==
    IF receipt.contractAddress.set
    THEN [result EXCEPT !.contractAddress = receipt.contractAddress]
    ELSE result

ReceiptSucceededAlways(receipt) == TRUE

\* if (receipt.status === "success")
ReceiptSucceeded(receipt) == receipt.status = "success"

\* the transaction was mined: the factory created the contract, or did nothing
MinedEffects(receipt) ==
    IF receipt.status = "success" /\ bArtifacts[bIdx].hasExpected
    THEN {bCode, bCode \cup {bIdx}}
    ELSE {bCode}

\* const receipt = await publicClient.waitForTransactionReceipt({ hash })
\* and what follows up to the next await
WaitForReceipt ==
    /\ bPc = "confirm"
    /\ \/ \* the wait throws (transport timeout); the transaction may be mined
          /\ \E code \in {bCode, IF bArtifacts[bIdx].hasExpected THEN bCode \cup {bIdx} ELSE bCode} :
               bCode' = code
          /\ Return(CatchResult(bResult, ThrownError("Request Timeout")))
          /\ UNCHANGED <<bReceipt, bSaved>>
       \/ \E receipt \in Receipts :
          LET r1 == [bResult EXCEPT !.blockNumber = Given(receipt.blockNumber),
                                    !.gasUsed = Given(receipt.gasUsed)]
              r2 == [r1 EXCEPT !.success = TRUE]
          IN
          /\ bReceipt' = receipt
          /\ \E code \in MinedEffects(receipt) : bCode' = code
          /\ IF ~ReceiptSucceeded(receipt)
             THEN /\ Return([r1 EXCEPT !.error = Given(<<"Transaction failed">>)])
                  /\ UNCHANGED bSaved
             ELSE IF bScript = "deploy-1.3.0-canonical"
             THEN SaveAndReturn(ReceiptAddressResult(r2, receipt))
             ELSE IF bArtifacts[bIdx].hasExpected
             THEN /\ bResult' = r2
                  /\ bPc' = "verify"
                  /\ UNCHANGED bSaved
             ELSE SaveAndReturn(ReceiptAddressResult(r2, receipt))
    /\ UNCHANGED <<batchFrame, bWarned, bIdx, bResults, successCount, failureCount,
                   bPrecheck, bAttempted, bSent, bWaited>>
    /\ UNCHANGED <<retryVars, gasVars, sinkVars, validationVars>>

VerifiedResultDistrustsReceipt(result, outcome) ==
    IF outcome # "throw" /\ HasBytecode(outcome)
    THEN [result EXCEPT !.contractAddress = ExpectedAddress(bIdx)]
    ELSE [result EXCEPT !.success = FALSE,
                        !.error = Given(<<"No bytecode found at expected address">>)]

\* the three branches after the post-deployment read (lines 301-329): code
\* found, no code found, read failed; the result was marked successful at
\* line 290 and every branch sets contractAddress = expectedAddress
VerifiedResult(result, outcome) ==
    IF outcome # "throw" /\ HasBytecode(outcome)
    THEN [result EXCEPT !.contractAddress = ExpectedAddress(bIdx)]
    ELSE IF outcome # "throw"
    THEN [result EXCEPT !.contractAddress = ExpectedAddress(bIdx), !.success = TRUE]
    ELSE [result EXCEPT !.contractAddress = ExpectedAddress(bIdx)]

\* const deployedBytecode = await publicClient.getBytecode(...) after a
\* success receipt, then saveDeploymentTransaction and the return
VerifyDeployed ==
    /\ bPc = "verify"
    /\ \E outcome \in ReadOutcomes(bIdx) :
         SaveAndReturn(VerifiedResult(bResult, outcome))
    /\ UNCHANGED <<batchFrame, bWarned, bCode, bIdx, bReceipt, bResults, successCount,
                   failureCount, bPrecheck, bAttempted, bSent, bWaited>>
    /\ UNCHANGED <<retryVars, gasVars, sinkVars, validationVars>>

\* main() receives deployContract's result: results.push(result), the
\* counters, and the decision to wait; deployContract's locals are gone
CollectResult ==
    /\ bPc = "push"
    /\ bResults' = PushResult(bResults, bResult)
    /\ bReceipt' = [status |-> "none"]
    /\ IF LoopLoadsFiles(bScript)
       THEN /\ successCount' = IF bResult.success THEN successCount + 1 ELSE successCount
            /\ failureCount' = IF bResult.success THEN failureCount ELSE failureCount + 1
            /\ bPc' = "wait"
            /\ UNCHANGED bIdx
       ELSE /\ UNCHANGED <<successCount, failureCount>>
            /\ IF bResult.success
               THEN /\ bPc' = "wait"
                    /\ UNCHANGED bIdx
               ELSE /\ bPc' = "loop"
                    /\ bIdx' = NextIndex(bResult, bIdx)
    /\ UNCHANGED <<batchFrame, bWarned, bCode, bResult, bPrecheck, bAttempted, bSent, bSaved, bWaited>>
    /\ UNCHANGED <<retryVars, gasVars, sinkVars, validationVars>>

\* await wait(DEPLOYMENT_CONFIG.delays.betweenDeployments)
WaitBetweenDeployments ==
    /\ bPc = "wait"
    /\ bWaited' = bWaited \cup {bIdx}
    /\ bIdx' = NextIndex(bResult, bIdx)
    /\ bPc' = "loop"
    /\ UNCHANGED <<batchFrame, bWarned, bCode, bResult, bReceipt, bResults, successCount,
                   failureCount, bPrecheck, bAttempted, bSent, bSaved>>
    /\ UNCHANGED <<retryVars, gasVars, sinkVars, validationVars>>

ExitCodeIgnoresFailures == IF Len(bResults) > 0 THEN 0 ELSE 1

\* if (failureCount > 0) process.exit(1), in the modules script
\* if (results.some(r => !r.success)) process.exit(1); else main() resolves
\* and .then(() => process.exit(0)) runs
ExitCode ==
    IF LoopLoadsFiles(bScript)
    THEN (IF failureCount > 0 THEN 1 ELSE 0)
    ELSE (IF \E i \in 1..Len(bResults) : ~bResults[i].success THEN 1 ELSE 0)

\* after the loop: (await publicClient.getChainId() in the file-loading
\* scripts,) createGitHubActionsSummary, and the exit code
Summarize ==
    /\ bPc = "loop"
    /\ bIdx > Len(bArtifacts)
    /\ bPc' = "exited"
    /\ \/ /\ bSummary' = Given(Summary(bResults))
          /\ bExit' = Given(ExitCode)
          /\ UNCHANGED bFatal
       \/ \* getChainId (file-loading scripts) or a write of the summary
          \* throws: main()'s catch block
          /\ bExit' = Given(1)
          /\ bFatal' = "after-batch"
          /\ UNCHANGED bSummary
    /\ UNCHANGED <<bScript, bArtifacts, bRun, bTxTotal, bCode, bIdx, bResult, bReceipt, bResults,
                   successCount, failureCount, bPrecheck, bAttempted, bSent, bSaved, bWaited,
                   bChainHash, bWarned>>
    /\ UNCHANGED <<retryVars, gasVars, sinkVars, validationVars>>

\* the process is killed while the batch runs: what it held in memory is
\* gone, the chain and the files stay
Interrupt ==
    /\ bPc \notin {"exited", "fatal", "killed", "off"}
    /\ bPc' = "killed"
    /\ bIdx' = 1
    /\ bResult' = [contractName |-> ""]
    /\ bReceipt' = [status |-> "none"]
    /\ bResults' = <<>>
    /\ successCount' = 0
    /\ failureCount' = 0
    /\ bPrecheck' = [k \in 1..Len(bArtifacts) |-> "none"]
    /\ bAttempted' = {}
    /\ bSent' = [k \in 1..Len(bArtifacts) |-> 0]
    /\ UNCHANGED <<batchFrame, bWarned, bCode, bSaved, bWaited>>
    /\ UNCHANGED <<retryVars, gasVars, sinkVars, validationVars>>

\* the script is invoked again over the same files
RunAgain ==
    /\ bPc \in {"exited", "fatal", "killed"}
    /\ bRun < MaxRuns
    /\ bRun' = bRun + 1
    /\ bPc' = "start"
    /\ bIdx' = 1
    /\ bResult' = [contractName |-> ""]
    /\ bReceipt' = [status |-> "none"]
    /\ bResults' = <<>>
    /\ successCount' = 0
    /\ failureCount' = 0
    /\ bPrecheck' = [k \in 1..Len(bArtifacts) |-> "none"]
    /\ bAttempted' = {}
    /\ bSent' = [k \in 1..Len(bArtifacts) |-> 0]
    /\ bSaved' = {}
    /\ bWaited' = {}
    /\ bSummary' = Missing
    /\ bExit' = Missing
    /\ bFatal' = "none"
    /\ bWarned' = {}
    /\ UNCHANGED <<bScript, bArtifacts, bCode, bTxTotal, bChainHash>>
    /\ UNCHANGED <<retryVars, gasVars, sinkVars, validationVars>>

BatchNext ==
    \/ PreBatch
    \/ LoadArtifact
    \/ GetProof
    \/ CheckExistence
    \/ PrepareTransaction
    \/ SendTransaction
    \/ WaitForReceipt
    \/ VerifyDeployed
    \/ CollectResult
    \/ WaitBetweenDeployments
    \/ Summarize
    \/ Interrupt
    \/ RunAgain

SpecBatch == BatchInit /\ [][BatchNext]_vars

\* the batch scripts over deployment data that carries codeHash, on chains
\* whose deployed bytecode has the expected or another code hash
CodeHashInit ==
    /\ RetryOff
    /\ GasOff
    /\ SinkOff
    /\ ValidationOff
    /\ \E script \in Scripts, artifacts \in HashedArtifactLists :
         \E code \in SUBSET {k \in 1..Len(artifacts) : artifacts[k].hasExpected} :
              BatchStart(script, artifacts, code, 1, 0)
    /\ bChainHash \in ChainCodeHashes

SpecCodeHash == CodeHashInit /\ [][BatchNext]_vars

(***************************************************************************)
(* Result files: saveDeploymentTransaction() and                           *)
(* createGitHubActionsSummary() of the batch scripts, over the files of    *)
(* the ./deployments directory and across invocations of a script.         *)
(***************************************************************************)
MaxClock == 2
MaxResults == 2

\* contract names an invocation saves, in batch order
SinkContractNames == <<"safe", "safe_l2">>

\* a value of process.env.DEPLOYMENT_SESSION_ID
EnvSessionId == [prefix |-> "nightly", t |-> 0]

\* `session-${Date.now()}`
GeneratedSessionId(now) == [prefix |-> "session-", t |-> now]

SessionIds == {EnvSessionId} \cup {GeneratedSessionId(t) : t \in 0..MaxClock}

\* process.env.DEPLOYMENT_SESSION_ID || deploymentSessionId || `session-${Date.now()}`
SessionIdOf(env, moduleId, now) ==
    IF env.set THEN env.v
    ELSE IF moduleId.set THEN moduleId.v
    ELSE GeneratedSessionId(now)

\* `${contractName}-${Date.now()}.json`
ContractFileName(contractName, now) == [contractName |-> contractName, suffix |-> now]

ContractFileNames ==
    {ContractFileName(SinkContractNames[k], t) : k \in 1..Len(SinkContractNames), t \in 0..MaxClock}

NoFile == [exists |-> FALSE]

\* a file holding JSON.stringify(value)
JsonFile(value) == [exists |-> TRUE, valid |-> TRUE, value |-> value]

\* a file whose text JSON.parse rejects: a write that was cut short
BrokenFile == [exists |-> TRUE, valid |-> FALSE, value |-> <<>>]

\* const deploymentData = { ... } (lines 81-91)
DeploymentRecord(contractName, txHash, blockNumber, gasUsed, now) ==
    [ contractName |-> contractName,
      txHash |-> txHash,
      blockNumber |-> DecimalString(blockNumber),
      gasUsed |-> DecimalOrNull(Given(gasUsed)),
      timestamp |-> now ]

\* lines 102-114: the records the call starts from; `readable` is whether
\* readFileSync delivered the file's text
ExistingSummaryData(file, readable) ==
    IF file.exists /\ readable /\ file.valid THEN file.value ELSE <<>>

\* results createGitHubActionsSummary is called with
SinkResults(k) ==
    LET name == ContractNames[k]
        mined == [NewResult(name, Given(k)) EXCEPT !.txHash = Given(k),
                                                  !.blockNumber = Given(7),
                                                  !.gasUsed = Given(21000)]
    IN
    { [mined EXCEPT !.success = TRUE, !.contractAddress = Given(k)],
      [mined EXCEPT !.error = Given(<<"Transaction failed">>)],
      LoopFailureResult(name, <<"Invalid deployment data: missing 'to' or 'data' field">>) }

SinkResultLists ==
    UNION { {rs \in [1..n -> UNION {SinkResults(k) : k \in 1..n}] :
                \A k \in 1..n : rs[k] \in SinkResults(k)} : n \in 1..MaxResults }

\* main() of the script assigns deploymentSessionId before the loop
SetsSessionId(script) == script # "deploy-modules"

\* a first invocation of one of `scripts` in an empty deployments directory
SinkStart(scripts) ==
    /\ RetryOff
    /\ GasOff
    /\ bScript \in scripts
    /\ BatchIdle
    /\ ValidationOff
    /\ sPc = "start"
    /\ sRun = 1
    /\ sNow = 0
    /\ sEnv \in {Missing, Given(EnvSessionId)}
    /\ deploymentSessionId = Missing
    /\ sLastSaved = 0
    /\ sTxCount = 0
    /\ sContractFiles = [f \in ContractFileNames |-> NoFile]
    /\ sSessionFiles = [id \in SessionIds |-> NoFile]
    /\ sSummaryFile = NoFile
    /\ sLatestFile = NoFile
    /\ sWritten = <<>>
    /\ sAppended = [id \in SessionIds |-> <<>>]
    /\ sLastCall = "none"
    /\ sSummaryCall = [ending |-> "none"]
    /\ sSessionsUsed = {}

SinkInit == SinkStart({"deploy-1.4.1"})

\* the clock moves on
Tick ==
    /\ sPc # "off"
    /\ sNow < MaxClock
    /\ sNow' = sNow + 1
    /\ UNCHANGED <<sPc, sRun, sEnv, deploymentSessionId, sLastSaved, sTxCount, sContractFiles,
                   sSessionFiles, sSummaryFile, sLatestFile, sWritten, sAppended,
                   sLastCall, sSummaryCall, sSessionsUsed>>
    /\ UNCHANGED <<retryVars, gasVars, batchVars, validationVars>>

\* main(): if (!deploymentSessionId) deploymentSessionId = env || `session-${Date.now()}`
InitSession ==
    /\ sPc = "start"
    /\ sPc' = "loop"
    /\ deploymentSessionId' =
          IF deploymentSessionId.set \/ ~SetsSessionId(bScript) THEN deploymentSessionId
          ELSE Given(IF sEnv.set THEN sEnv.v ELSE GeneratedSessionId(sNow))
    /\ UNCHANGED <<sRun, sNow, sEnv, sLastSaved, sTxCount, sContractFiles, sSessionFiles,
                   sSummaryFile, sLatestFile, sWritten, sAppended, sLastCall, sSummaryCall,
                   sSessionsUsed>>
    /\ UNCHANGED <<retryVars, gasVars, batchVars, validationVars>>

\* saveDeploymentTransaction(contractName, txHash, blockNumber, ...): the
\* per-contract file is written, then the session file is read, extended
\* and written back; each file system call can throw, which ends the call
SaveDeploymentTransaction ==
    /\ sPc = "loop"
    /\ \E k \in (sLastSaved + 1)..Len(SinkContractNames),
          blockNumber \in BlockNumbers, gasUsed \in GasUsedValues,
          contractWrite \in {"ok", "throw"}, readable \in BOOLEAN,
          sessionWrite \in {"ok", "cut", "throw"} :
         LET record == DeploymentRecord(SinkContractNames[k], sTxCount + 1, blockNumber, gasUsed, sNow)
             contractFile == ContractFileName(SinkContractNames[k], sNow)
             sessionId == SessionIdOf(sEnv, deploymentSessionId, sNow)
             summaryData == ExistingSummaryData(sSessionFiles[sessionId], readable)
         IN
         /\ sLastSaved' = k
         /\ sTxCount' = sTxCount + 1
         /\ IF contractWrite = "throw"
            THEN /\ sLastCall' = "threw"
                 /\ UNCHANGED <<sContractFiles, sSessionFiles, sWritten, sAppended, sSessionsUsed>>
            ELSE /\ sContractFiles' = [sContractFiles EXCEPT ![contractFile] = JsonFile(record)]
                 /\ sSessionsUsed' = sSessionsUsed \cup {sessionId}
                 /\ sWritten' = Append(sWritten, [file |-> contractFile, record |-> record])
                 /\ (readable \/ sSessionFiles[sessionId].exists)
                 /\ CASE sessionWrite = "ok" ->
                           /\ sSessionFiles' = [sSessionFiles EXCEPT ![sessionId] =
                                                   JsonFile(Append(summaryData, record))]
                           /\ sAppended' = [sAppended EXCEPT ![sessionId] = Append(@, record)]
                           /\ sLastCall' = "returned"
                      [] sessionWrite = "cut" ->
                           /\ sSessionFiles' = [sSessionFiles EXCEPT ![sessionId] = BrokenFile]
                           /\ sLastCall' = "threw"
                           /\ UNCHANGED sAppended
                      [] sessionWrite = "throw" ->
                           /\ sLastCall' = "threw"
                           /\ UNCHANGED <<sSessionFiles, sAppended>>
    /\ UNCHANGED <<sPc, sRun, sNow, sEnv, deploymentSessionId, sSummaryFile, sLatestFile, sSummaryCall>>
    /\ UNCHANGED <<retryVars, gasVars, batchVars, validationVars>>

\* createGitHubActionsSummary(results, networkName, chainId): the summary is
\* written under a timestamped name and under the "latest" name; a throwing
\* write ends the call (and main(), with exit code 1)
CreateGitHubActionsSummary ==
    /\ sPc = "loop"
    /\ sPc' = "exited"
    /\ \E results \in SinkResultLists, ending \in {"returned", "threw-first", "threw-second"} :
         LET summary == Summary(results) IN
         /\ sSummaryCall' = [ending |-> ending, results |-> results]
         /\ sSummaryFile' = IF ending = "threw-first" THEN sSummaryFile
                            ELSE [exists |-> TRUE, valid |-> TRUE, value |-> summary, suffix |-> sNow]
         /\ sLatestFile' = IF ending = "returned" THEN JsonFile(summary) ELSE sLatestFile
    /\ UNCHANGED <<sRun, sNow, sEnv, deploymentSessionId, sLastSaved, sTxCount, sContractFiles,
                   sSessionFiles, sWritten, sAppended, sLastCall, sSessionsUsed>>
    /\ UNCHANGED <<retryVars, gasVars, batchVars, validationVars>>

\* the process has ended or was killed, and a script is invoked again in the
\* same working directory: the files stay, the module variable starts undefined
NextInvocation ==
    /\ sPc \in {"loop", "exited"}
    /\ sRun < MaxRuns
    /\ sRun' = sRun + 1
    /\ sPc' = "start"
    /\ sEnv' \in {Missing, Given(EnvSessionId)}
    /\ deploymentSessionId' = Missing
    /\ sLastSaved' = 0
    /\ sLastCall' = "none"
    /\ sSummaryCall' = [ending |-> "none"]
    /\ sSummaryFile' = NoFile
    /\ sSessionsUsed' = {}
    /\ UNCHANGED <<sNow, sTxCount, sContractFiles, sSessionFiles, sLatestFile,
                   sWritten, sAppended>>
    /\ UNCHANGED <<retryVars, gasVars, batchVars, validationVars>>

\* the per-contract and session files over the invocations of a script
SinkNext ==
    \/ Tick
    \/ InitSession
    \/ SaveDeploymentTransaction
    \/ NextInvocation

SpecSink == SinkInit /\ [][SinkNext]_vars

\* the summary files over the invocations of a script
SummaryNext ==
    \/ Tick
    \/ InitSession
    \/ CreateGitHubActionsSummary
    \/ NextInvocation

SpecSummary == SinkInit /\ [][SummaryNext]_vars

\* the session files written by each of the batch scripts
SessionInit == SinkStart(Scripts)

SpecSession == SessionInit /\ [][SinkNext]_vars


\* ---------------------------------------------------------------------------
\* The numbers of a result as they are written to the files
\* ---------------------------------------------------------------------------
\* block numbers and gas amounts (bigint) a receipt can carry
BigInts == {0, 7, 8, 21000}
OptionalBigInts == {Missing} \cup {Given(n) : n \in BigInts}

\* a mined result and the moment it is written
SerializeInit ==
    /\ RetryOff
    /\ GasOff
    /\ BatchOff
    /\ SinkOff
    /\ vPc = "start"
    /\ vArgs \in [ contractName : {"safe", "safe_l2"},
                   success : BOOLEAN,
                   blockNumber : OptionalBigInts,
                   gasUsed : OptionalBigInts ]
    /\ vResult = <<>>

\* the result as createGitHubActionsSummary is given it
SerializedResult(args) ==
    [NewResult(args.contractName, Missing) EXCEPT !.success = args.success,
                                                  !.txHash = Given(1),
                                                  !.blockNumber = args.blockNumber,
                                                  !.gasUsed = args.gasUsed]

\* saveDeploymentTransaction builds the per-artifact record from the
\* receipt's blockNumber and gasUsed
SerializeRecord ==
    /\ vPc = "start"
    /\ vArgs.success /\ vArgs.blockNumber.set /\ vArgs.gasUsed.set
    /\ vPc' = "record"
    /\ vResult' = DeploymentRecord(vArgs.contractName, 1, vArgs.blockNumber.v, vArgs.gasUsed.v, 0)
    /\ UNCHANGED <<vArgs, retryVars, gasVars, batchVars, sinkVars>>

\* createGitHubActionsSummary maps the result to its summary entry
SerializeSummaryEntry ==
    /\ vPc = "start"
    /\ vPc' = "summary"
    /\ vResult' = SummaryEntry(SerializedResult(vArgs))
    /\ UNCHANGED <<vArgs, retryVars, gasVars, batchVars, sinkVars>>

SerializeNext == SerializeRecord \/ SerializeSummaryEntry

SpecSerialize == SerializeInit /\ [][SerializeNext]_vars


\* ---------------------------------------------------------------------------
\* main(): the order of the deployment files
\* ---------------------------------------------------------------------------
MaxFiles == 4

DEPLOYMENT_ORDER ==
    << "compatibility_fallback_handler", "create_call", "sign_message_lib",
       "simulate_tx_accessor", "multi_send", "multi_send_call_only",
       "safe_proxy_factory", "safe", "safe_l2", "safe_migration",
       "safe_to_l2_migration", "safe_to_l2_setup" >>

\* names of files that DEPLOYMENT_ORDER does not list, in the order of
\* String.prototype.localeCompare (which sorts "e" before "T" before "z")
UnlistedNames == <<"extra_lib", "Token_callback", "zodiac_module">>

\* file names (without .json) a deployment directory can hold
FileNames ==
    {"create_call", "multi_send", "safe", "safe_l2"}
        \cup {UnlistedNames[i] : i \in 1..Len(UnlistedNames)}

\* what readdirSync can deliver: distinct names in any order
FileLists ==
    UNION { {fs \in [1..n -> FileNames] : \A i, j \in 1..n : i # j => fs[i] # fs[j]}
                : n \in 0..MaxFiles }

\* Array.prototype.indexOf: the zero-based position, or -1
indexOf(list, x) ==
    IF \E i \in 1..Len(list) : list[i] = x
    THEN (CHOOSE i \in 1..Len(list) : list[i] = x) - 1
    ELSE -1

\* a.localeCompare(b) on the unlisted names
localeCompare(a, b) == indexOf(UnlistedNames, a) - indexOf(UnlistedNames, b)

CompareFilesUnlistedFirst(a, b) ==
    LET indexA == indexOf(DEPLOYMENT_ORDER, a)
        indexB == indexOf(DEPLOYMENT_ORDER, b)
    IN IF indexA = -1 /\ indexB = -1 THEN localeCompare(a, b)
       ELSE IF indexA = -1 THEN -1
       ELSE IF indexB = -1 THEN 1
       ELSE indexA - indexB

\* the comparator given to files.sort (lines 487-495)
CompareFiles(a, b) ==
    LET indexA == indexOf(DEPLOYMENT_ORDER, a)
        indexB == indexOf(DEPLOYMENT_ORDER, b)
    IN IF indexA = -1 /\ indexB = -1 THEN localeCompare(a, b)
       ELSE IF indexA = -1 THEN 1
       ELSE IF indexB = -1 THEN -1
       ELSE indexA - indexB

\* Array.prototype.sort (stable): each element is placed behind the
\* elements the comparator does not put it in front of
RECURSIVE InsertFile(_, _)
InsertFile(sorted, x) ==
    IF sorted = <<>> THEN <<x>>
    ELSE IF CompareFiles(x, Head(sorted)) < 0 THEN <<x>> \o sorted
    ELSE <<Head(sorted)>> \o InsertFile(Tail(sorted), x)

RECURSIVE SortFiles(_)
SortFiles(files) ==
    IF files = <<>> THEN <<>>
    ELSE InsertFile(SortFiles(SubSeq(files, 1, Len(files) - 1)), files[Len(files)])

OrderInit ==
    /\ RetryOff
    /\ GasOff
    /\ BatchOff
    /\ SinkOff
    /\ vPc = "start"
    /\ vArgs \in FileLists
    /\ vResult = <<>>

\* const sortedFiles = files.sort(...)
SortDeploymentFiles ==
    /\ vPc = "start"
    /\ vPc' = "sorted"
    /\ vResult' = SortFiles(vArgs)
    /\ UNCHANGED <<vArgs, retryVars, gasVars, batchVars, sinkVars>>

SpecOrder == OrderInit /\ [][SortDeploymentFiles]_vars


(***************************************************************************)
(* utils/validation.ts: validateDeployTargets                              *)
(***************************************************************************)
MaxTargetsLen == 4

\* A string is the sequence of its pieces. No piece is a concatenation of
\* other pieces, so two strings are equal iff their piece sequences are.
TargetPieces == {"all", "ALL", "1.3.0", "Modules", "bogus", "erc", "20", " ", ","}

TargetStrings == UNION {[1..n -> TargetPieces] : n \in 0..MaxTargetsLen}

\* config.ts
VALID_DEPLOY_TARGETS ==
    << <<"1.3.0">>, <<"1.4.1">>, <<"1.5.0">>, <<"modules">>, <<"erc", "20">>,
       <<"erc", "721">>, <<"all">> >>

\* the validTargets argument: the configured list, or a caller's shorter one
ValidTargetLists == {VALID_DEPLOY_TARGETS, << <<"1.3.0">>, <<"erc", "20">> >>}

\* a character matched by \s
IsWhitespace(c) == c = " "

\* targets.trim() === ""
TrimIsEmpty(s) == \A i \in 1..Len(s) : IsWhitespace(s[i])

\* s.toLowerCase()
LowerCased(s) == [i \in 1..Len(s) |-> toLowerCase(s[i])]

\* s.replace(/\s/g, "")
StripWhitespace(s) == SelectSeq(s, LAMBDA c : ~IsWhitespace(c))

\* s.split(","): the substrings between the commas, empty ones included
RECURSIVE split(_)
split(s) ==
    IF \E k \in 1..Len(s) : s[k] = ","
    THEN LET k == CHOOSE k \in 1..Len(s) : s[k] = "," /\ \A j \in 1..(k - 1) : s[j] # ","
         IN <<SubSeq(s, 1, k - 1)>> \o split(SubSeq(s, k + 1, Len(s)))
    ELSE <<s>>

\* list.includes(t)
ListIncludes(list, t) == \E i \in 1..Len(list) : list[i] = t

\* targets.toLowerCase().replace(/\s/g, "").split(",").filter(t => t.length > 0)
TargetList(targets) ==
    SelectSeq(split(StripWhitespace(LowerCased(targets))), LAMBDA t : Len(t) > 0)

AllCombinedNever(targetList) == FALSE

\* if (targetList.length > 1), under targetList.includes("all")
AllCombined(targetList) == Len(targetList) > 1

Returned(value) == [kind |-> "return", value |-> value]
Threw(message, invalid) == [kind |-> "throw", message |-> message, invalid |-> invalid]

validateDeployTargets(targets, validTargets) ==
    LET targetList == TargetList(targets)
        invalid == SelectSeq(targetList, LAMBDA t : ~ListIncludes(validTargets, t))
    IN IF Len(targets) = 0 \/ TrimIsEmpty(targets) THEN Returned(<<>>)
       ELSE IF Len(targetList) = 0 THEN Returned(<<>>)
       ELSE IF ListIncludes(targetList, <<"all">>)
       THEN IF AllCombined(targetList)
            THEN Threw("Invalid deploy_targets: \"all\" cannot be combined with other targets", <<>>)
            ELSE Returned(<< <<"all">> >>)
       ELSE IF Len(invalid) > 0
       THEN Threw("Invalid deployment targets: ", invalid)
       ELSE Returned(targetList)

ValidationInit ==
    /\ RetryOff
    /\ GasOff
    /\ BatchOff
    /\ SinkOff
    /\ vPc = "call"
    /\ vArgs \in [targets : TargetStrings, validTargets : ValidTargetLists]
    /\ vResult = <<>>

\* the call validateDeployTargets(targets, validTargets) runs to its end
ValidateDeployTargets ==
    /\ vPc = "call"
    /\ vResult' = validateDeployTargets(vArgs.targets, vArgs.validTargets)
    /\ vPc' = IF vResult'.kind = "throw" THEN "thrown" ELSE "returned"
    /\ UNCHANGED vArgs
    /\ UNCHANGED <<retryVars, gasVars, batchVars, sinkVars>>

SpecValidation == ValidationInit /\ [][ValidateDeployTargets]_vars

(***************************************************************************)
(* scripts/deploy-nft.ts: deployNFT                                        *)
(***************************************************************************)
\* values of process.env.ERC721_TOKEN_ID ("" when it is not set)
TokenIdStrings == {"", " ", "1", "42", "-1", "abc"}

\* ENV_DEFAULTS.ERC721_TOKEN_ID
DefaultTokenId == "1"

\* BigInt(s) on the strings of the model
BigIntOf(s) ==
    CASE s = "1" -> Returned(1)
      [] s = "42" -> Returned(42)
      [] s = "-1" -> Returned(-1)
      [] s \in {"", " "} -> Returned(0)
      [] OTHER -> Threw(<<"Cannot convert ", s, " to a BigInt">>, <<>>)

\* utils/validation.ts validateErc721TokenId
validateErc721TokenId(tokenId) ==
    IF TrimmedEmpty(tokenId) THEN Returned(DefaultTokenId)
    ELSE IF BigIntOf(tokenId).kind = "throw" THEN BigIntOf(tokenId)
    ELSE IF BigIntOf(tokenId).value < 0
    THEN Threw(<<"Invalid ERC721 token ID: ", tokenId, ". Must be a non-negative integer">>, <<>>)
    ELSE Returned(tokenId)

\* const result = { contractName: "ERC721", success: false }
NFTResult == NewResult("ERC721", Missing)

\* the address taken from the receipt, else deploymentData.expectedAddress
NFTContractAddress(receipt, expectedAddress) ==
    IF receipt.contractAddress.set THEN receipt.contractAddress ELSE expectedAddress

\* result after a success receipt (lines 132-156)
NFTDeployedResult(result, receipt, expectedAddress) ==
    [result EXCEPT !.blockNumber = Given(receipt.blockNumber),
                   !.gasUsed = Given(receipt.gasUsed),
                   !.success = TRUE,
                   !.contractAddress = NFTContractAddress(receipt, expectedAddress)]

\* result after a receipt that is no success (lines 132-133, 227)
NFTRevertedResult(result, receipt) ==
    [result EXCEPT !.blockNumber = Given(receipt.blockNumber),
                   !.gasUsed = Given(receipt.gasUsed),
                   !.error = Given(<<"Transaction failed">>)]

MintFailureResultFlips(result, error) == CatchResult(result, error)

\* the catch blocks of the mint (lines 208-210, 214-224) only print a warning
MintFailureResult(result, error) == result

NFTInit ==
    /\ RetryOff
    /\ GasOff
    /\ BatchOff
    /\ SinkOff
    /\ vPc = "deploy"
    /\ vArgs \in [ expectedAddress : {Missing, Given(1)},
                   ERC721_TOKEN_ID : TokenIdStrings ]
    /\ vResult = [result |-> NFTResult, receipt |-> [status |-> "none"], warned |-> "none"]

\* deployNFT returns `result`; `warned` is the warning the mint printed
NFTReturn(result, warned) ==
    /\ vPc' = "returned"
    /\ vResult' = [vResult EXCEPT !.result = result, !.warned = warned]

\* const hash = await client.deployContract(...); result.txHash = hash
NFTSend ==
    /\ vPc = "deploy"
    /\ \/ /\ vPc' = "confirm"
          /\ vResult' = [vResult EXCEPT !.result.txHash = Given(1)]
       \/ NFTReturn(CatchResult(vResult.result, ThrownError("insufficient funds")), "none")
    /\ UNCHANGED <<vArgs, retryVars, gasVars, batchVars, sinkVars>>

\* const receipt = await client.waitForTransactionReceipt({ hash }), and the
\* code up to the next await: the result fields, the contract address and
\* the token id's validation
NFTConfirm ==
    /\ vPc = "confirm"
    /\ \/ NFTReturn(CatchResult(vResult.result, ThrownError("Request Timeout")), "none")
       \/ \E receipt \in Receipts :
            IF ~ReceiptSucceeded(receipt)
            THEN /\ vPc' = "returned"
                 /\ vResult' = [vResult EXCEPT !.result = NFTRevertedResult(@, receipt),
                                               !.receipt = receipt]
            ELSE LET deployed == NFTDeployedResult(vResult.result, receipt, vArgs.expectedAddress)
                     tokenIdStr == validateErc721TokenId(Or(vArgs.ERC721_TOKEN_ID, DefaultTokenId))
                 IN
                 IF ~deployed.contractAddress.set
                 THEN /\ vPc' = "returned"
                      /\ vResult' = [vResult EXCEPT !.result = deployed, !.receipt = receipt]
                 ELSE IF tokenIdStr.kind = "throw"
                 THEN /\ vPc' = "returned"
                      /\ vResult' = [result |-> MintFailureResult(deployed, ThrownError("Invalid ERC721 token ID")),
                                     receipt |-> receipt,
                                     warned |-> "Failed to mint NFT: token id"]
                 ELSE /\ vPc' = "mint-wait"
                      /\ vResult' = [vResult EXCEPT !.result = deployed, !.receipt = receipt]
    /\ UNCHANGED <<vArgs, retryVars, gasVars, batchVars, sinkVars>>

\* await wait(DEPLOYMENT_CONFIG.delays.afterConfirmation)
NFTWaitBeforeMint ==
    /\ vPc = "mint-wait"
    /\ vPc' = "mint-write"
    /\ UNCHANGED <<vArgs, vResult, retryVars, gasVars, batchVars, sinkVars>>

\* const mintHash = await client.writeContract({ functionName: "safeMint", ... })
NFTMint ==
    /\ vPc = "mint-write"
    /\ \/ /\ vPc' = "mint-confirm"
          /\ UNCHANGED vResult
       \/ NFTReturn(MintFailureResult(vResult.result, ThrownError("Function safeMint not found")),
                    "safeMint function not found")
       \/ NFTReturn(MintFailureResult(vResult.result, ThrownError("execution reverted")),
                    "Failed to mint NFT: writeContract")
    /\ UNCHANGED <<vArgs, retryVars, gasVars, batchVars, sinkVars>>

\* const mintReceipt = await client.waitForTransactionReceipt({ hash: mintHash })
NFTMintConfirm ==
    /\ vPc = "mint-confirm"
    /\ \/ /\ vPc' = "owner"
          /\ UNCHANGED vResult
       \/ NFTReturn(vResult.result, "Mint transaction failed")
       \/ NFTReturn(MintFailureResult(vResult.result, ThrownError("Request Timeout")),
                    "Failed to mint NFT: receipt")
    /\ UNCHANGED <<vArgs, retryVars, gasVars, batchVars, sinkVars>>

\* const owner = await client.readContract({ functionName: "ownerOf", ... })
NFTReadOwner ==
    /\ vPc = "owner"
    /\ \/ NFTReturn(vResult.result, "none")
       \/ NFTReturn(MintFailureResult(vResult.result, ThrownError("HTTP request failed")),
                    "Could not verify ownership")
    /\ UNCHANGED <<vArgs, retryVars, gasVars, batchVars, sinkVars>>

NFTNext ==
    \/ NFTSend
    \/ NFTConfirm
    \/ NFTWaitBeforeMint
    \/ NFTMint
    \/ NFTMintConfirm
    \/ NFTReadOwner

SpecNFT == NFTInit /\ [][NFTNext]_vars


(***************************************************************************)
(* Properties of the batch scripts                                         *)
(***************************************************************************)
NumArtifacts == Len(bArtifacts)

\* the pre-deployment read of artifact k reported code at its expectedAddress
ReportedDeployed(k) == bPrecheck[k] = DeployedBytecode

\* the result of artifact k, once deployContract has produced it
HasResult(k) == k <= Len(bResults) \/ (k = bIdx /\ bPc = "push")
ResultOf(k) == IF k <= Len(bResults) THEN bResults[k] ELSE bResult

\* C1 - Idempotency of a batch: in a second (or resumed) run in which the
\* chain reports code at every artifact's expectedAddress, no transaction is
\* sent and every artifact has a result with success = true.
BatchIdempotency ==
    (bRun >= 2 /\ bPc = "exited" /\ \A k \in 1..NumArtifacts : ReportedDeployed(k))
        => /\ \A k \in 1..NumArtifacts : bSent[k] = 0
           /\ Len(bResults) = NumArtifacts
           /\ \A k \in 1..NumArtifacts : bResults[k].success

\* the first run deployed both artifacts, the second run finds them
BatchIdempotencyWitness ==
    /\ bRun = 2
    /\ bPc = "exited"
    /\ NumArtifacts = 2
    /\ bTxTotal = 2
    /\ \A k \in 1..NumArtifacts : ReportedDeployed(k) /\ bSent[k] = 0
    /\ \A k \in 1..NumArtifacts : bResults[k].success

\* C2 - Already deployed: when the pre-deployment read at expectedAddress
\* returns code, deployContract returns success with contractAddress =
\* expectedAddress and never calls sendTransaction for the artifact; a
\* transaction for an artifact with an expectedAddress is only sent after
\* that read came back empty or failed.
AlreadyDeployedSkipsSend ==
    \A k \in 1..NumArtifacts :
        /\ ReportedDeployed(k) =>
             /\ bSent[k] = 0
             /\ HasResult(k)
             /\ ResultOf(k).success
             /\ ResultOf(k).contractAddress = Given(k)
             /\ ResultOf(k).txHash = Missing
        /\ (bSent[k] > 0 /\ bArtifacts[k].hasExpected) =>
             bPrecheck[k] \in {Undefined, "0x", "throw"}

AlreadyDeployedSkipsSendWitness ==
    /\ bRun = 1
    /\ bPc = "push"
    /\ ReportedDeployed(bIdx)
    /\ bResult.success
    /\ bResult.contractAddress = Given(bIdx)
    /\ bSent[bIdx] = 0

IsTransactionFailure(result) ==
    ~result.success /\ result.error = Given(<<"Transaction failed">>)

\* C3 - No cross-artifact abort: when the batch has ended, every artifact
\* after a failed one has been attempted and has its result; a batch
\* [failed receipt, already deployed] ends with the results [failure
\* "Transaction failed", success at the expected address] and the summary
\* total 2, successful 1, failed 1.
NoCrossArtifactAbort ==
    bPc = "exited" =>
        /\ \A i \in 1..Len(bResults) :
             ~bResults[i].success =>
                \A j \in (i + 1)..NumArtifacts :
                    /\ j \in bAttempted
                    /\ j <= Len(bResults)
                    /\ bResults[j].contractName = ContractNames[j]
        /\ (/\ NumArtifacts = 2
            /\ Len(bResults) >= 1
            /\ IsTransactionFailure(bResults[1])
            /\ ReportedDeployed(2))
             => /\ Len(bResults) = 2
                /\ bResults[2].success
                /\ bResults[2].contractAddress = Given(2)
                /\ (bSummary.set =>
                      /\ bSummary.v.totalContracts = 2
                      /\ bSummary.v.successful = 1
                      /\ bSummary.v.failed = 1)

NoCrossArtifactAbortWitness ==
    /\ bPc = "exited"
    /\ NumArtifacts = 2
    /\ Len(bResults) = 2
    /\ IsTransactionFailure(bResults[1])
    /\ ReportedDeployed(2)
    /\ bResults[2].success
    /\ bSummary.set
    /\ bSummary.v.failed = 1

\* C4 - Ordering and count: the loop produces exactly one result per
\* artifact, on every path, and the k-th result carries the k-th name.
OrderingAndCount ==
    /\ Len(bResults) <= NumArtifacts
    /\ \A k \in 1..Len(bResults) : bResults[k].contractName = ContractNames[k]
    /\ bPc = "exited" => Len(bResults) = NumArtifacts
    /\ bPc = "wait" => Len(bResults) = bIdx
    /\ bPc \in {"loop", "proof", "check", "nonce", "gasPrice", "estimateGas",
                "send", "confirm", "verify", "push"} => Len(bResults) = bIdx - 1

\* an unreadable file, then an artifact whose transaction could not be sent
OrderingAndCountWitness ==
    /\ bPc = "exited"
    /\ NumArtifacts = 2
    /\ Len(bResults) = 2
    /\ ~bArtifacts[1].readable
    /\ ~bResults[1].success
    /\ bSent[2] = 1
    /\ ~bResults[2].success
    /\ bResults[2].txHash = Missing

\* C12 - Failed existence check: in every batch script, an artifact whose
\* pre-deployment read at expectedAddress threw goes on to sendTransaction;
\* it never gets a result without its transaction having been submitted.
FailedPrecheckProceeds ==
    \A k \in 1..NumArtifacts :
        (bPrecheck[k] = "throw" /\ HasResult(k)) => bSent[k] >= 1

\* C13 - Failed receipt: when the receipt's status is not "success" the
\* artifact's result is a failure with error "Transaction failed", and
\* nothing else runs for it: the post-deployment read is only ever issued
\* after a success receipt, and saveDeploymentTransaction is not called.
FailedReceiptStops ==
    /\ (bPc = "push" /\ bResult.blockNumber.set /\ bReceipt.status # "success") =>
          /\ IsTransactionFailure(bResult)
          /\ bResult.contractAddress = Missing
          /\ bIdx \notin bSaved
    /\ bPc = "verify" => bReceipt.status = "success"
    /\ \A k \in 1..NumArtifacts :
          (HasResult(k) /\ IsTransactionFailure(ResultOf(k))) =>
              /\ k \notin bSaved
              /\ bSent[k] = 1

FailedReceiptStopsWitness ==
    /\ bPc = "push"
    /\ bScript = "deploy-1.4.1"
    /\ bArtifacts[bIdx].hasExpected
    /\ bReceipt.status = "reverted"
    /\ bResult.blockNumber.set
    /\ IsTransactionFailure(bResult)
    /\ bSent[bIdx] = 1
    /\ bIdx \notin bSaved

\* every artifact has a result and every result is a success
AllArtifactsSucceeded ==
    /\ Len(bResults) = NumArtifacts
    /\ \A i \in 1..Len(bResults) : bResults[i].success

\* C17 - Process exit code: a script that has ended exits with 0 iff every
\* artifact's result has success = true and no fatal error occurred; it
\* exits with 1 when some result is a failure, and when a check before the
\* batch failed (required environment, RPC URL, artifacts directory).
ExitCodeReflectsOutcome ==
    /\ bExit.set <=> bPc \in {"exited", "fatal"}
    /\ bExit.set =>
          /\ bExit.v \in {0, 1}
          /\ bExit.v = 0 <=> (AllArtifactsSucceeded /\ bFatal = "none")
          /\ (\E i \in 1..Len(bResults) : ~bResults[i].success) => bExit.v = 1
    /\ bPc = "fatal" =>
          /\ bFatal \in {"environment", "no-rpc-url", "rpc-url", "directory", "chain-id"}
          /\ bExit = Given(1)
          /\ bResults = <<>>
    /\ bFatal # "none" => bExit = Given(1)

\* the first artifact was deployed, the second one failed: exit code 1
ExitCodeReflectsOutcomeWitness ==
    /\ bPc = "exited"
    /\ bFatal = "none"
    /\ NumArtifacts = 2
    /\ Len(bResults) = 2
    /\ bResults[1].success
    /\ ~bResults[2].success
    /\ bSummary.set
    /\ bExit = Given(1)

\* positions of deployContract at which an RPC call is outstanding
RpcPositions ==
    {"proof", "check", "nonce", "gasPrice", "estimateGas", "send", "confirm", "verify"}

\* an RPC call has been issued for artifact k in this invocation
RpcIssued(k) ==
    \/ bPrecheck[k] # "none"
    \/ bSent[k] > 0
    \/ (k = bIdx /\ bPc \in RpcPositions)

\* C18 - Strict sequentiality: an RPC call (bytecode read, sendTransaction,
\* receipt wait) for an artifact is only issued once the result of every
\* earlier artifact has been appended to results; at most one artifact with
\* RPC calls is without its appended result.
StrictlySequential ==
    /\ \A k \in 1..NumArtifacts :
          RpcIssued(k) => \A j \in 1..(k - 1) : j <= Len(bResults)
    /\ Cardinality({k \in 1..NumArtifacts : RpcIssued(k) /\ k > Len(bResults)}) <= 1
    /\ bPc \in RpcPositions => Len(bResults) = bIdx - 1

\* the second artifact's transaction is awaited; the first one's result,
\* from a transaction of its own, is in results
StrictlySequentialWitness ==
    /\ bPc = "confirm"
    /\ bIdx = 2
    /\ bSent[1] = 1
    /\ bSent[2] = 1
    /\ Len(bResults) = 1
    /\ bResults[1].txHash.set

\* C19 - Result invariant: every result has an error when success = false,
\* and when success = true it has a contractAddress unless the artifact
\* carried no expectedAddress and the receipt no contract address (the
\* case the scripts warn about).
ResultInvariant ==
    /\ \A k \in 1..NumArtifacts :
          HasResult(k) =>
              /\ ~ResultOf(k).success => ResultOf(k).error.set
              /\ ResultOf(k).success =>
                    (ResultOf(k).contractAddress.set \/ ~bArtifacts[k].hasExpected)
    /\ (bPc = "push" /\ bResult.success /\ bResult.txHash.set) =>
          (bResult.contractAddress.set
             \/ (~bArtifacts[bIdx].hasExpected /\ ~bReceipt.contractAddress.set))

\* the between-deployments delay after artifact k is being waited or over
DelayAfter(k) == k \in bWaited \/ (k = bIdx /\ bPc = "wait")

\* C20 - Inter-artifact pacing: in every batch script the between-deployments
\* delay follows each artifact whose result is a success, and no delay
\* follows an artifact whose result is a failure.
PacingAfterSuccessOnly ==
    \A k \in 1..Len(bResults) :
        /\ bResults[k].success => DelayAfter(k)
        /\ ~bResults[k].success => ~DelayAfter(k)

\* C21 - Per-artifact durability: every artifact whose result has
\* success = true has had saveDeploymentTransaction called for it by the
\* time deployContract has produced that result, hence before any step of
\* the next artifact.
PerArtifactDurability ==
    \A k \in 1..NumArtifacts :
        (HasResult(k) /\ ResultOf(k).success) => k \in bSaved

\* C26 - Load-time rejection: in every batch script an artifact (of a file
\* that parses) without `to` or without `data` gets no RPC call - no
\* bytecode read, no transaction - and a failure result, and the artifacts
\* after it are still processed.
LoadTimeRejection ==
    \A k \in 1..NumArtifacts :
        (/\ bArtifacts[k].readable
         /\ ~bArtifacts[k].hasTo \/ ~bArtifacts[k].hasData
         /\ k \in bAttempted)
          => /\ ~RpcIssued(k)
             /\ HasResult(k) => ~ResultOf(k).success /\ ResultOf(k).error.set
             /\ (bPc = "exited" /\ bSummary.set) =>
                   \A j \in (k + 1)..NumArtifacts : j \in bAttempted /\ j <= Len(bResults)

\* saveDeploymentTransaction threw into deployContract's catch block
SaveThrew(result) ==
    result.error = Given(formatError(ThrownError("ENOSPC: no space left on device")))

ReceiptWaitThrew(result) ==
    result.error = Given(formatError(ThrownError("Request Timeout")))

\* C30 - Receipt wait throws: when sendTransaction returned a hash and
\* waitForTransactionReceipt then throws, the artifact's result is a failure
\* with an error that carries that transaction hash, and the loop goes on:
\* a batch that runs to its end has a result for every later artifact.
ReceiptWaitFailure ==
    \A k \in 1..NumArtifacts :
        (HasResult(k) /\ ReceiptWaitThrew(ResultOf(k))) =>
            /\ ~ResultOf(k).success
            /\ ResultOf(k).error.set
            /\ ResultOf(k).txHash.set
            /\ ResultOf(k).txHash.v <= bTxTotal
            /\ bSent[k] = 1
            /\ bPc # "fatal"
            /\ (bPc = "exited" /\ bSummary.set) =>
                  \A j \in (k + 1)..NumArtifacts : j \in bAttempted /\ j <= Len(bResults)

\* the first artifact's receipt wait threw, the second artifact was deployed
ReceiptWaitFailureWitness ==
    /\ bPc = "exited"
    /\ bSummary.set
    /\ Len(bResults) = 2
    /\ ReceiptWaitThrew(bResults[1])
    /\ bResults[1].txHash = Given(1)
    /\ bResults[2].success
    /\ bResults[2].txHash = Given(2)

(***************************************************************************)
(* Properties of the result files                                          *)
(***************************************************************************)
\* the session id the running invocation's calls use
CurrentSessionId == SessionIdOf(sEnv, deploymentSessionId, sNow)

\* C14 - Strict append of the session aggregate: after a
\* saveDeploymentTransaction call has returned, the session file of its
\* session id holds every record appended under that id so far, by this or
\* an earlier invocation, in append order and ending with the new one.
SessionStrictAppend ==
    (sPc = "loop" /\ sLastCall = "returned") =>
        sSessionFiles[CurrentSessionId] = JsonFile(sAppended[CurrentSessionId])

\* C15 - No overwrite of per-contract records: any two completed writes for
\* the same contract name went to files of different names, so every record
\* written is still on disk.
PerContractFilesUnique ==
    /\ \A i, j \in 1..Len(sWritten) :
          (i < j /\ sWritten[i].record.contractName = sWritten[j].record.contractName)
              => sWritten[i].file # sWritten[j].file
    /\ \A i \in 1..Len(sWritten) :
          sContractFiles[sWritten[i].file] = JsonFile(sWritten[i].record)

\* C16 - Session summary counts: once createGitHubActionsSummary has
\* returned, the timestamped summary has totalContracts = number of results,
\* successful = number of results with success, failed = number without
\* (so successful + failed = totalContracts), lists the results in the order
\* given, and the "latest" file holds the same summary.
SummaryCounts ==
    sSummaryCall.ending = "returned" =>
        LET results == sSummaryCall.results
            summary == sSummaryFile.value
        IN
        /\ sSummaryFile.exists
        /\ summary.totalContracts = Len(results)
        /\ summary.successful = Cardinality({i \in 1..Len(results) : results[i].success})
        /\ summary.failed = Cardinality({i \in 1..Len(results) : ~results[i].success})
        /\ summary.successful + summary.failed = summary.totalContracts
        /\ Len(summary.deployments) = Len(results)
        /\ \A i \in 1..Len(results) :
              /\ summary.deployments[i].contractName = results[i].contractName
              /\ summary.deployments[i].success = results[i].success
        /\ sLatestFile.exists
        /\ sLatestFile.value = summary

\* a second invocation replaces the "latest" summary by one of a success and
\* a failure
SummaryCountsWitness ==
    /\ sSummaryCall.ending = "returned"
    /\ sRun = 2
    /\ Len(sSummaryCall.results) = 2
    /\ sSummaryCall.results[1].success
    /\ ~sSummaryCall.results[2].success
    /\ sSummaryFile.value.successful = 1
    /\ sSummaryFile.value.failed = 1
    /\ sLatestFile.value = sSummaryFile.value

(***************************************************************************)
(* Properties of retry()                                                   *)
(***************************************************************************)
\* every invocation of fn() so far has failed
AllInvocationsFailed == Len(rErrors) = rCalls

AllErrorsRetryable ==
    \A i \in 1..Len(rErrors) : IsRetryable(MergeOptions(rOptions), rErrors[i])

\* C5 - Retry exhaustion: when every invocation fails with a retryable error,
\* retry() throws only after exactly maxAttempts invocations and throws the
\* error of the last invocation; a failure of invocation number maxAttempts is
\* re-thrown at once, retryable or not.
RetryExhaustion ==
    LET opts == MergeOptions(rOptions) IN
    /\ (rPc = "thrown" /\ AllInvocationsFailed /\ AllErrorsRetryable)
         => /\ rCalls = opts.maxAttempts
            /\ (rCalls >= 1 => rThrown = rErrors[rCalls] /\ rThrown.id = rCalls)
    /\ (AllInvocationsFailed /\ rCalls >= 1 /\ rCalls = opts.maxAttempts)
         => /\ rPc = "thrown"
            /\ rThrown = rErrors[rCalls]

RetryExhaustionWitness ==
    /\ rPc = "thrown"
    /\ AllInvocationsFailed
    /\ AllErrorsRetryable
    /\ rCalls = 3
    /\ Len(rSleeps) = 2
    /\ rThrown = rErrors[3]

BackoffFromCallerOptions ==
    LET opts == MergeOptions(rOptions) IN
    ~rOptions.delayFn.set =>
        \A n \in 1..Len(rSleeps) :
            rSleeps[n] = Min(opts.initialDelayMs * Pow(opts.backoffMultiplier, n - 1), opts.maxDelayMs)

\* C8 - Backoff monotonicity: for backoffMultiplier > 1 the sleeps of one
\* retry() call never decrease and none exceeds maxDelayMs.
BackoffMonotone ==
    LET opts == MergeOptions(rOptions) IN
    opts.backoffMultiplier > 1 =>
        /\ \A n \in 1..Len(rSleeps) : rSleeps[n] <= opts.maxDelayMs
        /\ \A n \in 1..(Len(rSleeps) - 1) : rSleeps[n] <= rSleeps[n + 1]
        /\ (rPc = "sleep" => rDelay <= opts.maxDelayMs)

\* two sleeps, the second one cut down to maxDelayMs
BackoffMonotoneWitness ==
    /\ MergeOptions(rOptions).backoffMultiplier > 1
    /\ Len(rSleeps) >= 2
    /\ rSleeps[1] < rSleeps[2]
    /\ rSleeps[2] = MergeOptions(rOptions).maxDelayMs
    /\ Delay(MergeOptions(rOptions), 2) > MergeOptions(rOptions).maxDelayMs

\* C22 - First success wins: retry() returns the value of the first
\* successful invocation and never invokes fn() again after it; an operation
\* that succeeds on its k-th invocation, after k - 1 retryable failures, has
\* been invoked exactly k times, and exactly once when it succeeds at once.
FirstSuccessReturns ==
    LET opts == MergeOptions(rOptions) IN
    /\ rValue # Undefined <=> rPc = "returned"
    /\ rPc = "returned" =>
         /\ rValue = "success"
         /\ rCalls = Len(rErrors) + 1
         /\ rCalls <= opts.maxAttempts
         /\ Len(rSleeps) = rCalls - 1
         /\ \A i \in 1..Len(rErrors) : rErrors[i].id = i /\ IsRetryable(opts, rErrors[i])
         /\ rErrors = <<>> => rCalls = 1

\* two retryable failures, then the third invocation succeeds
FirstSuccessReturnsWitness ==
    /\ rPc = "returned"
    /\ rValue = "success"
    /\ rCalls = 3
    /\ Len(rErrors) = 2
    /\ MergeOptions(rOptions).maxAttempts = 3

\* C23 - Fixed delay: a retryWithFixedDelay(fn, maxAttempts, delayMs) call
\* sleeps exactly delayMs between every two consecutive attempts, whatever
\* delayMs and the attempt number are.
FixedDelayExact ==
    \A n \in 1..Len(rSleeps) : rSleeps[n] = rOptions.delayFn.v.ms

(***************************************************************************)
(* Properties of estimateDeploymentGas()                                   *)
(***************************************************************************)
\* C9 - Gas warning thresholds: the estimate returned has warning "critical"
\* iff gas > 10,000,000, "high" iff 3,000,000 < gas <= 10,000,000, no warning
\* otherwise, and estimatedCost = gas * gasPrice.
GasWarningThresholds ==
    gPc = "done" =>
        /\ gResult.gas = gGas
        /\ (gResult.warning = "critical" <=> gResult.gas > 10000000)
        /\ (gResult.warning = "high" <=> (3000000 < gResult.gas /\ gResult.gas <= 10000000))
        /\ (gResult.warning = Undefined <=> gResult.gas <= 3000000)
        /\ gResult.estimatedCost = gResult.gas * gResult.gasPrice

\* the estimate sits exactly on maxLimit and is only "high"
GasWarningThresholdsWitness ==
    /\ gPc = "done"
    /\ gResult.gas = 10000000
    /\ gResult.warning = "high"
    /\ gResult.gasPrice = 7
    /\ gResult.estimatedCost = 70000000

\* the price lookup's retry() has given up
PriceLookupFailed == gPriceCalls >= 1 /\ rPc = "thrown" /\ gPc # "price"

\* C10 - Gas price degradation: when the gas estimate succeeded and the price
\* lookup failed on every attempt, estimateDeploymentGas does not throw and
\* returns the 20 gwei default; getGasPrice is invoked at most 3 times.
GasPriceDegradation ==
    /\ gPriceCalls <= 3
    /\ PriceLookupFailed =>
         /\ gPc = "done"
         /\ gThrown = NoError
         /\ gResult.gas = gGas
         /\ gResult.gasPrice = GasPriceFallbackGwei
         /\ GasPriceFallbackGwei = 20

GasPriceDegradationWitness ==
    /\ PriceLookupFailed
    /\ gPc = "done"
    /\ gPriceCalls = 3
    /\ Len(rErrors) = 3
    /\ gResult.gasPrice = 20

\* retry(estimateGasFn, ...) has given up: no price lookup has started since
EstimateFailed == rPc = "thrown" /\ gPriceCalls = 0

\* C11 - When estimateFn fails (retries exhausted or a non-retryable error),
\* estimateDeploymentGas throws a GasEstimationError with code
\* GAS_ESTIMATION_ERROR, returns no estimate, and never starts the price
\* lookup; it throws in no other case.
EstimateFailureIsFatal ==
    /\ EstimateFailed =>
         /\ gPc \in {"estimate", "thrown"}
         /\ gPriceCalls = 0
    /\ gPc = "thrown" =>
         /\ EstimateFailed
         /\ gThrown.cls = "GasEstimationError"
         /\ ErrorCode(gThrown.cls) = "GAS_ESTIMATION_ERROR"
         /\ isDeploymentError(gThrown)
         /\ gThrown.id = rThrown.id

\* estimateGasFn failed three times with retryable errors
EstimateFailureIsFatalWitness ==
    /\ gPc = "thrown"
    /\ gEstimateCalls = 3
    /\ Len(rSleeps) = 2
    /\ gThrown.cls = "GasEstimationError"
    /\ gPriceCalls = 0

(***************************************************************************)
(* Properties of validateDeployTargets()                                   *)
(***************************************************************************)
\* C24 - validateDeployTargets(targets, validTargets) throws or returns a
\* list for every input; a blank input returns []; an input whose only
\* target is "all" returns ["all"] and one that combines "all" with another
\* target throws; without "all" it throws iff some normalized (lower-cased,
\* whitespace-stripped) target is not in validTargets, and otherwise returns
\* the normalized targets in input order.
DeployTargetsValidated ==
    LET targets == vArgs.targets
        validTargets == vArgs.validTargets
        normalized == TargetList(targets)
        hasAll == ListIncludes(normalized, <<"all">>)
        returns(list) == vPc = "returned" /\ vResult = Returned(list)
    IN vPc # "call" =>
         /\ \/ vPc = "thrown" /\ vResult.kind = "throw"
            \/ vPc = "returned" /\ vResult.kind = "return" /\ DOMAIN vResult.value = 1..Len(vResult.value)
         /\ TrimIsEmpty(targets) => returns(<<>>)
         /\ normalized = << <<"all">> >> => returns(<< <<"all">> >>)
         /\ (hasAll /\ \E i \in 1..Len(normalized) : normalized[i] # <<"all">>) => vPc = "thrown"
         /\ ~hasAll =>
              /\ vPc = "thrown" <=> \E i \in 1..Len(normalized) : ~ListIncludes(validTargets, normalized[i])
              /\ vPc = "returned" => returns(normalized)

\* "Modules,erc20" comes back lower-cased and in input order
DeployTargetsValidatedWitness ==
    /\ vPc = "returned"
    /\ vArgs.targets = <<"Modules", ",", "erc", "20">>
    /\ vArgs.validTargets = VALID_DEPLOY_TARGETS
    /\ vResult.value = << <<"modules">>, <<"erc", "20">> >>

(***************************************************************************)
(* Properties of the configuration main() reads                            *)
(***************************************************************************)
\* C25 - Configuration errors are pre-batch: when PRIVATE_KEY is missing or
\* blank, the RPC URL is absent or malformed, or the deployment data
\* directory is missing, a batch script ends with exit code 1 and has issued
\* no network call.
ConfigErrorsPreBatch ==
    LET script == vArgs.script
        env == vArgs.env
        bad == \/ TrimmedEmpty(env.PRIVATE_KEY)
               \/ RpcUrlRejected(ResolveRpcUrl(script, env))
               \/ ~env.directory
    IN (script \in Scripts /\ vPc # "call" /\ bad) =>
          /\ vPc = "exited"
          /\ vResult.exit = Given(1)
          /\ vResult.calls = <<>>

\* the first non-empty string of a list, "" when there is none
FirstNonEmpty(sources) ==
    IF \E i \in 1..Len(sources) : sources[i] # ""
    THEN sources[CHOOSE i \in 1..Len(sources) :
                    sources[i] # "" /\ \A j \in 1..(i - 1) : sources[j] = ""]
    ELSE ""

\* C27 - RPC URL resolution: every script uses the first non-empty of
\* CUSTOM_RPC_URL, <NETWORK>_RPC_URL (network name upper-cased), RPC_URL and
\* the localhost default; a later source is used exactly when all earlier
\* ones are unset. Stated for environments whose private key, directory and
\* resulting URL are in order.
RpcUrlResolutionOrder ==
    LET env == vArgs.env
        expected == FirstNonEmpty(<<env.CUSTOM_RPC_URL,
                                    IF env.networkName = "sepolia" THEN env.SEPOLIA_RPC_URL ELSE "",
                                    env.RPC_URL,
                                    LocalhostDefault(env.networkName)>>)
    IN (vPc # "call" /\ ~TrimmedEmpty(env.PRIVATE_KEY) /\ env.directory
          /\ ~RpcUrlRejected(expected))
         => vResult.rpcUrl = expected

(***************************************************************************)
(* Properties of the code-hash check                                       *)
(***************************************************************************)
\* C31 - in every batch script: when an artifact has both expectedAddress
\* and codeHash, and the pre-deployment read found code at expectedAddress
\* whose hash differs from codeHash, the mismatch warning was printed, the
\* result is success and no transaction was sent for the artifact
CodeHashMismatchWarned ==
    \A k \in 1..NumArtifacts :
        ( /\ HasResult(k)
          /\ ReportedDeployed(k)
          /\ CodeHashMismatch(bChainHash, bArtifacts[k].codeHash) )
        => /\ k \in bWarned
           /\ ResultOf(k).success
           /\ bSent[k] = 0

\* C32 - At most one transaction per artifact: within one invocation of a
\* batch script sendTransaction is called at most once for each artifact,
\* whether the send, the wait for the receipt or the post-deployment read
\* fails or not
AtMostOneTransaction ==
    \A k \in 1..NumArtifacts : bSent[k] <= 1

\* a transaction was sent, the artifact ended as a failure, and the batch
\* went on to its end
AtMostOneTransactionWitness ==
    /\ bPc = "exited"
    /\ \E k \in 1..NumArtifacts :
         /\ bSent[k] = 1
         /\ HasResult(k)
         /\ ResultOf(k).txHash.set
         /\ ~ResultOf(k).success

(***************************************************************************)
(* Properties of the numbers written to the result files                   *)
(***************************************************************************)
\* C33 - every block number and gas-used value present in a result, 0
\* included, is written to the per-artifact record and to the summary entry
\* as its decimal string, not as a number and not as null
DecimalStringsKept ==
    /\ vPc = "record" =>
          /\ vResult.blockNumber = DecimalString(vArgs.blockNumber.v)
          /\ vResult.gasUsed = Given(DecimalString(vArgs.gasUsed.v))
    /\ vPc = "summary" =>
          /\ vArgs.blockNumber.set =>
                vResult.blockNumber = Given(DecimalString(vArgs.blockNumber.v))
          /\ vArgs.gasUsed.set =>
                vResult.gasUsed = Given(DecimalString(vArgs.gasUsed.v))

(***************************************************************************)
(* Properties of the session files                                         *)
(***************************************************************************)
\* C34 - One session per invocation: in every batch script the
\* saveDeploymentTransaction calls of one invocation all use the same
\* session id, so their records are appended to the same session file,
\* whether DEPLOYMENT_SESSION_ID is set or not
OneSessionPerInvocation ==
    Cardinality(sSessionsUsed) <= 1

(***************************************************************************)
(* Properties of the batch scripts: the end of the batch                   *)
(***************************************************************************)
\* C35 - Partial success is always reported: an invocation that entered the
\* deployment loop and has ended has written the session summary, with a
\* result for every artifact, whichever artifacts failed and whatever
\* failed after the loop
PartialSuccessReported ==
    bPc = "exited" =>
        /\ bSummary.set
        /\ Len(bSummary.v.deployments) = NumArtifacts

RECURSIVE SumOf(_)
SumOf(seq) == IF seq = <<>> THEN 0 ELSE Head(seq) + SumOf(Tail(seq))

\* the largest number of sleeps: maxAttempts - 1, none for maxAttempts < 1
MaxSleeps(opts) == IF opts.maxAttempts >= 1 THEN opts.maxAttempts - 1 ELSE 0

RetryWithinBounds ==
    LET opts == MergeOptions(rOptions) IN
    /\ rCalls <= opts.maxAttempts
    /\ Len(rSleeps) <= MaxSleeps(opts)
    /\ \A n \in 1..Len(rSleeps) : rSleeps[n] <= opts.maxDelayMs
    /\ SumOf(rSleeps) <= MaxSleeps(opts) * opts.maxDelayMs

\* C37 - Bounded retry: when each invocation of the operation returns or
\* throws, every retry() call ends (it returns or throws), after at most
\* maxAttempts invocations and at most maxAttempts - 1 sleeps, each of at
\* most maxDelayMs, so with a total delay of at most
\* (maxAttempts - 1) * maxDelayMs
BoundedRetry ==
    /\ []RetryWithinBounds
    /\ <>(rPc \in {"returned", "thrown"})

\* three invocations and two sleeps, the second one cut to maxDelayMs
BoundedRetryWitness ==
    /\ rPc = "thrown"
    /\ MergeOptions(rOptions).maxAttempts = 3
    /\ rCalls = 3
    /\ Len(rSleeps) = 2
    /\ rSleeps[2] = MergeOptions(rOptions).maxDelayMs
    /\ Delay(MergeOptions(rOptions), 2) > MergeOptions(rOptions).maxDelayMs

(***************************************************************************)
(* Properties of the batch scripts: the result sink                        *)
(***************************************************************************)
\* C38 - The sink is called once the outcome is final: when
\* saveDeploymentTransaction has been called for an artifact, the result
\* deployContract returns for it has success = true; a deployment confirmed
\* by a success receipt is not reported as a failure
SinkAfterFinalOutcome ==
    \A k \in 1..NumArtifacts :
        (k \in bSaved /\ HasResult(k)) => ResultOf(k).success

(***************************************************************************)
(* Properties of retry(): the first invocation                             *)
(***************************************************************************)
\* C39 - for every options value, maxAttempts <= 0 included: a retry() call
\* that has ended has invoked the operation at least once, and the value it
\* throws is an error one of the invocations raised
InvokedAtLeastOnce ==
    rPc \in {"returned", "thrown"} =>
        /\ rCalls >= 1
        /\ rPc = "thrown" => \E n \in 1..Len(rErrors) : rErrors[n] = rThrown

(***************************************************************************)
(* Properties of deployNFT()                                               *)
(***************************************************************************)
\* C40 - once the deployment receipt has status success, no step of the mint
\* (token id rejected, writeContract failing, mint receipt failed or not
\* obtained, ownership read failing) changes the deployment result: it has
\* success = true, the transaction hash, the contract address, the
\* receipt's blockNumber and gasUsed, and no error
MintKeepsDeploymentResult ==
    vResult.receipt.status = "success" =>
        /\ vResult.result.success
        /\ vResult.result.txHash = Given(1)
        /\ vResult.result.contractAddress =
              NFTContractAddress(vResult.receipt, vArgs.expectedAddress)
        /\ vResult.result.blockNumber = Given(vResult.receipt.blockNumber)
        /\ vResult.result.gasUsed = Given(vResult.receipt.gasUsed)
        /\ vResult.result.error = Missing

\* the deployment succeeded and the mint's writeContract was rejected
MintKeepsDeploymentResultWitness ==
    /\ vPc = "returned"
    /\ vResult.receipt.status = "success"
    /\ vResult.warned = "Failed to mint NFT: writeContract"

====
